---- MODULE Spec2Model ----
(***************************************************************************)
(* A model of src/src/wrap-idb-value.js: the layer that wraps the objects  *)
(* of the host's IndexedDB API into proxies and promises.                  *)
(*                                                                         *)
(* Values are records [k, r, i, lvl, s]:                                   *)
(*   k = "raw"     an object of the host: r is its kind, i its number,     *)
(*   k = "prim"    a primitive or another value that is no IDB object,     *)
(*   k = "err"     a DOMException,                                         *)
(*   k = "throw"   the outcome of a call that threw (r names the error),   *)
(*   k = "proxy"   a `new Proxy(value, idbProxyTraps)`,                    *)
(*   k = "iter"    a `new Proxy(cursor, cursorIteratorTraps)`,             *)
(*   k = "promise" a promise made by promisifyRequest,                     *)
(*   k = "done"    a transaction's completion promise,                     *)
(*   k = "ret"     the promise a synthesized shorthand returns,            *)
(*   k = "then"    the promise `.then(() => {})` of deleteDB returns,      *)
(*   k = "wrapped" a function made by wrapFunction.                        *)
(* For an object this layer creates, r and i are those of the host object  *)
(* at the bottom of its chain of targets, lvl is the number of proxies     *)
(* above that object, and s tells apart the objects created with the same  *)
(* k, r, i and lvl: every `new` gets a name no object has yet.             *)
(* A function of the host or of this layer is a value too (see Fn below),  *)
(* and a method call through a proxy is the read of the property by the    *)
(* get trap followed by the call of the function the read returned.        *)
(*                                                                         *)
(* Six specifications share the operators:                                 *)
(*   Spec       openDB, deleteDB, wrap, property reads and db.transaction  *)
(*              on the database and its first transaction, with the host's *)
(*              events,                                                    *)
(*   SpecIter   the iteration of a store, an index or a cursor,            *)
(*   SpecShort  the synthesized shorthands of a wrapped database,          *)
(*   SpecProps  property reads, membership tests and writes on the         *)
(*              wrappers of a database, a transaction, a store, an index   *)
(*              and a cursor,                                              *)
(*   SpecLate   the iteration of a store or an index whose consumer also   *)
(*              advances the cursor after it has resumed the generator,    *)
(*   SpecListen a transaction and a cursor a caller advances by hand, with *)
(*              the events of both.                                        *)
(***************************************************************************)
EXTENDS Naturals, Sequences, FiniteSets, TLC

VARIABLES
  \* the program
  heap,                   \* the proxies, promises and functions created
  transformCache,         \* WeakMap raw -> wrapped
  reverseTransformCache,  \* WeakMap wrapped -> raw
  transactionDoneMap,     \* WeakMap transaction -> completion promise
  cachedMethods,          \* Map name -> the kind of function cached for it
  advanceResults,         \* WeakMap iteration proxy -> promise of an advance
  proxiedCursorLookup,    \* WeakMap iteration proxy -> wrapped cursor
  cursorFunctions,        \* WeakSet of the advancing functions read
  reactions,              \* promise -> the promise that reacts to it: the
                          \* Promise.all of a shorthand, the then of deleteDB
  shorthands,             \* shorthand promise -> the call it belongs to
  iteration,              \* the async generator made by iterate
  \* the host
  listeners,              \* event target -> sequence of listeners [ev, p]
  requests,               \* request -> [state, result, error]
  transactions,           \* transaction -> [state, error, names, mode]
  cursor,                 \* the cursor: [records, pos, step]
  properties,             \* <<host object, name>> -> the value a caller wrote
  \* history
  signals,                \* event target -> the events it has fired
  callLog,                \* the calls of wrap so far: [arg, res]
  trace                   \* what an iteration has yielded and issued so far,
                          \* whether an advance of its consumer has thrown, and
                          \* how its consumer ended it, if it did

vars == <<heap, transformCache, reverseTransformCache, transactionDoneMap,
          cachedMethods, advanceResults, proxiedCursorLookup, cursorFunctions,
          reactions, shorthands, iteration, listeners, requests, transactions,
          cursor, properties, signals, callLog, trace>>

\* Bounds of the model.
MaxLevel == 2
MaxPromises == 2
MaxErrorEvents == 1
MaxCalls == 1
MaxRecords == 3
MaxStep == 2
MaxStores == 2
MaxWrites == 1

----------------------------------------------------------------------------
\* Values

Val(k, r, i, lvl, s) == [k |-> k, r |-> r, i |-> i, lvl |-> lvl, s |-> s]
Raw(r, i) == Val("raw", r, i, 0, 0)
Prim(r) == Val("prim", r, 0, 0, 0)
Err(r) == Val("err", r, 0, 0, 0)
Throw(r) == Val("throw", r, 0, 0, 0)
Undefined == Prim("undefined")
Null == Prim("null")
NaN == Prim("NaN")
False == Prim("false")
True == Prim("true")
AbortError == Err("AbortError")

advanceMethods == {"advance", "continue", "continuePrimaryKey"}
readMethods == {"get", "getKey", "getAll", "getAllKeys", "count"}
writeMethods == {"put", "add", "delete", "clear"}

\* The kinds of host object and the interface each implements. Number 0 is
\* the database, the request that opens or deletes it, and the transaction,
\* store, index, cursor and cursor request of an iteration; numbers
\* 1..MaxCalls are the transaction, store, index and request of a call.
RawType == [db |-> "IDBDatabase", tx |-> "IDBTransaction",
            store |-> "IDBObjectStore", index |-> "IDBIndex",
            cursor |-> "IDBCursor", req |-> "IDBRequest", creq |-> "IDBRequest"]
Id(value) == <<value.r, value.i>>
TransactionIds == {<<"tx", i>> : i \in 0..MaxCalls}
RequestIds == {<<"req", i>> : i \in 0..MaxCalls} \cup {<<"creq", 0>>}
EventTargets == RequestIds \cup TransactionIds

\* `value instanceof C`: a proxy has the prototype chain of its target.
InstanceOf(value, C) ==
  /\ value.k \in {"raw", "proxy", "iter"}
  /\ RawType[value.r] = C

isStoreLike(v) == InstanceOf(v, "IDBObjectStore") \/ InstanceOf(v, "IDBIndex")

isProxyable(val) ==
  \/ isStoreLike(val)
  \/ \E c \in {"IDBDatabase", "IDBCursor", "IDBTransaction"} : InstanceOf(val, c)

\* A name no object of the heap has.
Fresh(h, k, of, lvl) ==
  Val(k, of.r, of.i, lvl,
      Cardinality({o \in DOMAIN h :
                     o.k = k /\ o.r = of.r /\ o.i = of.i /\ o.lvl = lvl}))

\* A cell of the heap. born and at are history: the number of events the
\* promise's event target had fired when the promise was created, and the
\* number of events fired in all when the promise settled.
ProxyCell(target) ==
  [target |-> target, state |-> "proxy", value |-> Undefined, born |-> 0,
   at |-> 0]
PromiseCell(of, born) ==
  [target |-> of, state |-> "pending", value |-> Undefined, born |-> born,
   at |-> 0]

\* The program and host state as one record, for the operators below.
State ==
  [heap |-> heap, tc |-> transformCache, rtc |-> reverseTransformCache,
   tdm |-> transactionDoneMap, cm |-> cachedMethods, ar |-> advanceResults,
   pcl |-> proxiedCursorLookup, cf |-> cursorFunctions, rx |-> reactions,
   sh |-> shorthands, it |-> iteration, lsn |-> listeners, req |-> requests,
   tx |-> transactions, cur |-> cursor, own |-> properties, sig |-> signals,
   log |-> callLog, tr |-> trace]

Result(st, r) == [st |-> st, r |-> r]

\* `const v = ...` followed by the statements F that use v.
Bind(v, F(_)) == F(v)

\* a === b: NaN is the one value that is not equal to itself.
StrictEquals(a, b) == a = b /\ a # NaN

\* typeof value is 'object' or 'function' and value is not null: the values
\* a WeakMap takes as a key.
isObject(value) == value.k # "prim"

\* The truth value of a value in a condition (lines 97, 104 and 107).
ToBoolean(value) == value \notin {Undefined, Null, False, NaN}

----------------------------------------------------------------------------
\* Functions, unwrap, promisifyRequest, wrapFunction, transformCachableValue,
\* wrap

\* A function: a value with k = "native" (a method of a host interface),
\* "method" (a synthesized shorthand), "func" (an advancing function of
\* cursorIteratorTraps), "iterate", or "wrapped" (a function made by
\* wrapFunction, whose cell in the heap holds the function it wraps). r names
\* the function at the bottom; the name of a native function has its
\* interface in front, as IDBIndex.prototype.get is another function than
\* IDBObjectStore.prototype.get.
Fn(k, name) == Val(k, name, 0, 0, 0)
Native(type, name) == Fn("native", type \o "." \o name)
isFunction(value) ==
  value.k \in {"native", "method", "func", "iterate", "wrapped"}
FunctionCell(func, state) ==
  [target |-> func, state |-> state, value |-> Undefined, born |-> 0, at |-> 0]

unwrap(st, value) ==
  IF value \in DOMAIN st.rtc THEN st.rtc[value] ELSE Undefined

RECURSIVE hostProp(_, _, _), hostCall(_, _, _, _), wrap(_, _),
          getProp(_, _, _), callMethod(_, _, _, _)

\* target[name] for a method of EventTarget, as lines 151-152, 162-163,
\* 234-236 and 246-248 read it: the host's function when target is an object
\* of the host; when target is a proxy of a transaction, what its get trap
\* returns at line 207, the wrap of what the proxy's own target has.
RECURSIVE eventTargetMethod(_, _, _)
eventTargetMethod(st, target, name) ==
  IF target.k = "raw" THEN Result(st, hostProp(st, target, name))
  ELSE Bind(eventTargetMethod(st, st.heap[target].target, name),
            LAMBDA targetProp : wrap(targetProp.st, targetProp.r))

\* f.apply(this, [listener]) for the function f eventTargetMethod returned:
\* the host's function on the host's object, or a function of lines 138-140,
\* which applies the function it wraps to unwrap(this). The host returns
\* undefined, which wrap returns as it is.
RECURSIVE eventTargetApply(_, _, _, _, _)
eventTargetApply(st, f, this, name, listener) ==
  IF f.k = "wrapped"
  THEN eventTargetApply(st, st.heap[f].target, unwrap(st, this), name, listener)
  ELSE IF this.k = "raw" THEN hostCall(st, this, name, listener).st
  ELSE st

\* target.addEventListener(ev, listener) and target.removeEventListener(ev,
\* listener), where the listener is the one promise p has for ev: the method
\* is read from target, through its get trap when target is a proxy, and
\* called on it.
addEventListener(st, target, ev, p) ==
  Bind(eventTargetMethod(st, target, "addEventListener"), LAMBDA f :
    eventTargetApply(f.st, f.r, target, "addEventListener",
                     [ev |-> ev, p |-> p]))
removeEventListener(st, target, ev, p) ==
  Bind(eventTargetMethod(st, target, "removeEventListener"), LAMBDA f :
    eventTargetApply(f.st, f.r, target, "removeEventListener",
                     [ev |-> ev, p |-> p]))

promisifyRequest(st, request) ==
  LET promise == Fresh(st.heap, "promise", request, 0)
  IN Bind([st EXCEPT !.heap =
             (promise :> PromiseCell(request, Len(st.sig[Id(request)]))) @@ @],
          LAMBDA made :
     Bind(addEventListener(made, request, "success", promise), LAMBDA s1 :
     Bind(addEventListener(s1, request, "error", promise), LAMBDA s2 :
       Result([s2 EXCEPT !.rtc = (promise :> request) @@ @], promise))))


wrapFunction(st, func) ==
  LET wrapped == Fresh(st.heap, "wrapped", func, func.lvl + 1)
  IN Result([st EXCEPT !.heap =
               (wrapped :> FunctionCell(func, IF func \in st.cf
                                              THEN "cursorFunction"
                                              ELSE "function")) @@ @],
            wrapped)

\* When value is a proxy of a transaction, value.addEventListener is read
\* through the proxy: its get trap wraps the host's function, and the
\* function wrapFunction made applies the host's to unwrap(this).
transformCachableValue(st, value) ==
  IF isFunction(value) THEN wrapFunction(st, value)
  ELSE Bind(IF InstanceOf(value, "IDBTransaction") /\ value \notin DOMAIN st.tdm
            THEN Bind(Fresh(st.heap, "done", value, value.lvl), LAMBDA done :
                 Bind([st EXCEPT !.heap =
                         (done :> PromiseCell(value, Len(st.sig[Id(value)]))) @@ @],
                      LAMBDA made :
                 Bind(addEventListener(made, value, "complete", done), LAMBDA s1 :
                 Bind(addEventListener(s1, value, "error", done), LAMBDA s2 :
                 Bind(addEventListener(s2, value, "abort", done), LAMBDA s3 :
                   [s3 EXCEPT !.tdm = (value :> done) @@ @])))))
            ELSE st,
            LAMBDA st1 :
         IF isProxyable(value)
         THEN Bind(Fresh(st1.heap, "proxy", value, value.lvl + 1), LAMBDA proxy :
                Result([st1 EXCEPT !.heap = (proxy :> ProxyCell(value)) @@ @],
                       proxy))
         ELSE Result(st1, value))

\* wrap without the lookup of line 270: every call transforms anew.
wrapUncached(st, value) ==
  IF InstanceOf(value, "IDBRequest") THEN promisifyRequest(st, value)
  ELSE Bind(transformCachableValue(st, value), LAMBDA t :
         IF StrictEquals(t.r, value) THEN t
         ELSE IF ~isObject(value) THEN Result(t.st, Throw("TypeError"))
         ELSE Result([t.st EXCEPT !.tc = (value :> t.r) @@ @,
                                  !.rtc = (t.r :> value) @@ @], t.r))

\* wrap without the return of line 266 for a request: the promise of a
\* request is cached like a proxy, and a second call returns it again.
wrapCachedRequest(st, value) ==
  IF value \in DOMAIN st.tc THEN Result(st, st.tc[value])
  ELSE Bind(IF InstanceOf(value, "IDBRequest") THEN promisifyRequest(st, value)
            ELSE transformCachableValue(st, value), LAMBDA t :
         IF StrictEquals(t.r, value) THEN t
         ELSE IF ~isObject(value) THEN Result(t.st, Throw("TypeError"))
         ELSE Result([t.st EXCEPT !.tc = (value :> t.r) @@ @,
                                  !.rtc = (t.r :> value) @@ @], t.r))

\* Lines 263-281. The test of line 275 is `newValue !== value`, which is
\* true also when both are NaN; transformCache.set of line 276 then throws a
\* TypeError, as a WeakMap takes no primitive as a key, and wrap throws it on.
wrap(st, value) ==
  IF InstanceOf(value, "IDBRequest") THEN promisifyRequest(st, value)
  ELSE IF value \in DOMAIN st.tc THEN Result(st, st.tc[value])
  ELSE Bind(transformCachableValue(st, value), LAMBDA t :
         IF StrictEquals(t.r, value) THEN t
         ELSE IF ~isObject(value) THEN Result(t.st, Throw("TypeError"))
         ELSE Result([t.st EXCEPT !.tc = (value :> t.r) @@ @,
                                  !.rtc = (t.r :> value) @@ @], t.r))

\* A call of wrap. The history keeps the calls on proxyable objects and on
\* requests, with what each returned, and the calls that threw.
wrapCall(st, value) ==
  Bind(wrap(st, value), LAMBDA w :
    Result([w.st EXCEPT !.log =
              IF \/ isProxyable(value) \/ InstanceOf(value, "IDBRequest")
                 \/ w.r.k = "throw"
              THEN @ \cup {[arg |-> value, res |-> w.r]} ELSE @], w.r))

----------------------------------------------------------------------------
\* Promises and the listeners of promisifyRequest and of the completion promise

\* Promise.all([op, isWrite && tx.done]) of a shorthand, after promise p of it
\* has settled: it rejects with the reason of the first promise that rejects,
\* and is fulfilled with the first value once every promise is fulfilled.
\* Promise.race in the place of Promise.all: the first promise to settle
\* decides.
promiseRace(st, p) ==
  IF st.heap[st.rx[p]].state # "pending" THEN st
  ELSE [st EXCEPT !.heap[st.rx[p]].state = st.heap[p].state,
                  !.heap[st.rx[p]].value = st.heap[p].value]

\* `await op; await done` in the place of Promise.all: done is looked at
\* only once op is fulfilled.
promiseSequential(st, p) ==
  LET ret == st.rx[p]
      call == st.sh[ret]
      stateOf(q) == IF q = False THEN "fulfilled" ELSE st.heap[q].state
  IN IF st.heap[ret].state # "pending" THEN st
     ELSE IF stateOf(call.op) = "rejected"
     THEN [st EXCEPT !.heap[ret].state = "rejected",
                     !.heap[ret].value = st.heap[call.op].value]
     ELSE IF stateOf(call.op) = "fulfilled" /\ stateOf(call.done) = "rejected"
     THEN [st EXCEPT !.heap[ret].state = "rejected",
                     !.heap[ret].value = st.heap[call.done].value]
     ELSE IF stateOf(call.op) = "fulfilled" /\ stateOf(call.done) = "fulfilled"
     THEN [st EXCEPT !.heap[ret].state = "fulfilled",
                     !.heap[ret].value = st.heap[call.op].value]
     ELSE st

promiseAll(st, p) ==
  LET ret == st.rx[p]
      call == st.sh[ret]
      fulfilled(q) == q = False \/ st.heap[q].state = "fulfilled"
  IN IF st.heap[ret].state # "pending" THEN st
     ELSE IF st.heap[p].state = "rejected"
     THEN [st EXCEPT !.heap[ret].state = "rejected",
                     !.heap[ret].value = st.heap[p].value]
     ELSE IF fulfilled(call.op) /\ fulfilled(call.done)
     THEN [st EXCEPT !.heap[ret].state = "fulfilled",
                     !.heap[ret].value = st.heap[call.op].value]
     ELSE st

\* The number of events the host has fired.
RECURSIVE SigSum(_, _)
SigSum(sig, T) ==
  IF T = {} THEN 0
  ELSE LET t == CHOOSE x \in T : TRUE IN Len(sig[t]) + SigSum(sig, T \ {t})
SigCount(st) == SigSum(st.sig, EventTargets)

\* The reaction of `.then(() => {})` (line 392) to its promise p, which has
\* settled: the promise then returned is fulfilled with what the callback
\* returns, undefined, or rejected with the reason p was rejected with.
then(st, p) ==
  [st EXCEPT !.heap[st.rx[p]].state = st.heap[p].state,
             !.heap[st.rx[p]].value = IF st.heap[p].state = "fulfilled"
                                      THEN Undefined ELSE st.heap[p].value]

\* resolve(value) / reject(value): a promise settles once, and its reactions
\* run in the order in which promises settle.
settle(st, p, state, value) ==
  IF st.heap[p].state # "pending" THEN st
  ELSE LET st1 == [st EXCEPT !.heap[p].state = state, !.heap[p].value = value,
                             !.heap[p].at = SigCount(st)]
       IN IF p \notin DOMAIN st.rx THEN st1
          ELSE IF st.rx[p].k = "then" THEN then(st1, p)
          ELSE promiseAll(st1, p)

\* unlisten removing the success and complete listeners only.
unlistenSuccess(st, target, p) ==
  removeEventListener(st, target,
                      IF p.k = "promise" THEN "success" ELSE "complete", p)

\* unlisten of promisifyRequest (lines 150-153), where target is the request,
\* and of the completion promise (lines 233-237), where target is the value
\* transformCachableValue was called with, a transaction or a proxy of one.
unlisten(st, target, p) ==
  IF p.k = "promise"
  THEN Bind(removeEventListener(st, target, "success", p), LAMBDA s1 :
         removeEventListener(s1, target, "error", p))
  ELSE Bind(removeEventListener(st, target, "complete", p), LAMBDA s1 :
       Bind(removeEventListener(s1, target, "error", p), LAMBDA s2 :
         removeEventListener(s2, target, "abort", p)))

\* success resolving with request.result as it is, not wrapped.
successUnwrapped(st, request, promise) ==
  Bind(settle(st, promise, "fulfilled", st.req[Id(request)].result),
       LAMBDA settled : unlisten(settled, request, promise))

\* Lines 154-157. When wrap throws, the listener ends there: the promise is
\* not resolved and unlisten is not called.
success(st, request, promise) ==
  Bind(wrapCall(st, st.req[Id(request)].result), LAMBDA w :
    IF w.r.k = "throw" THEN w.st
    ELSE Bind(settle(w.st, promise, "fulfilled", w.r), LAMBDA settled :
           unlisten(settled, request, promise)))

error(st, request, promise) ==
  Bind(settle(st, promise, "rejected", st.req[Id(request)].error),
       LAMBDA settled : unlisten(settled, request, promise))

complete(st, value, done) ==
  Bind(settle(st, done, "fulfilled", Undefined), LAMBDA settled :
    unlisten(settled, value, done))

\* The error listener without the generic AbortError of line 243.
doneErrorNoDefault(st, value, done) ==
  Bind(getProp(st, value, "error"), LAMBDA e :
  Bind(settle(e.st, done, "rejected", e.r), LAMBDA settled :
    unlisten(settled, value, done)))

doneError(st, value, done) ==
  Bind(getProp(st, value, "error"), LAMBDA e :
  Bind(settle(e.st, done, "rejected", IF e.r # Null THEN e.r ELSE AbortError),
       LAMBDA settled : unlisten(settled, value, done)))

\* The listener l of a promise: the request or the value the promise was made
\* for is the one its closure holds.
listener(st, target, l) ==
  IF l.p.k = "promise"
  THEN IF l.ev = "success" THEN success(st, st.heap[l.p].target, l.p)
       ELSE error(st, st.heap[l.p].target, l.p)
  ELSE IF l.ev = "complete" THEN complete(st, st.heap[l.p].target, l.p)
       ELSE doneError(st, st.heap[l.p].target, l.p)

\* The host delivers an event to the listeners registered when it fires, in
\* the order of their registration, skipping one removed meanwhile.
RECURSIVE runListeners(_, _, _)
runListeners(st, target, ls) ==
  IF ls = <<>> THEN st
  ELSE LET l == Head(ls)
           registered == \E n \in DOMAIN st.lsn[target] : st.lsn[target][n] = l
       IN Bind(IF registered THEN listener(st, target, l) ELSE st,
               LAMBDA st1 : runListeners(st1, target, Tail(ls)))

dispatchEvent(st, target, ev) ==
  runListeners(st, target, SelectSeq(st.lsn[target], LAMBDA l : l.ev = ev))

\* The host fires ev at target; val is the result or the error it carries.
fire(st, target, ev, val) ==
  dispatchEvent([st EXCEPT !.sig[target] = Append(@, [ev |-> ev, val |-> val])],
                target, ev)

----------------------------------------------------------------------------
\* The host, as far as this layer uses it

\* The transaction a call of db.transaction creates: the first unused one.
nextTx(st) ==
  CHOOSE i \in 1..MaxCalls :
    /\ st.tx[<<"tx", i>>].state = "none"
    /\ \A j \in 1..(i - 1) : st.tx[<<"tx", j>>].state # "none"

\* The names of the stores raw transaction tx spans, and list[j] of such a
\* list, which is undefined past its end.
StoreName(j) == Val("prim", "store", j, 0, 0)
objectStoreNames(st, tx) ==
  [j \in 0..(st.tx[Id(tx)].names - 1) |-> StoreName(j)]
Item(list, j) == IF j \in DOMAIN list THEN list[j] ELSE Undefined

\* The cursor has a value: it is on a record and no advance is pending.
gotValue(st) == st.cur.step = 0 /\ st.cur.pos \in 1..st.cur.records

\* The methods of the host's interfaces, as far as the model names them.
Methods ==
  [db |-> {"transaction"},
   tx |-> {"objectStore"},
   store |-> readMethods \cup writeMethods \cup {"index", "openCursor"},
   index |-> readMethods \cup {"openCursor"},
   cursor |-> advanceMethods,
   req |-> {},
   creq |-> {}]

\* The methods a database, a transaction and a request inherit from
\* EventTarget: one function each, whatever the interface of the object.
EventTargetMethods == {"addEventListener", "removeEventListener"}
isEventTarget(raw) == raw.r \in {"db", "tx", "req", "creq"}
HostMethods(raw) ==
  Methods[raw.r] \cup (IF isEventTarget(raw) THEN EventTargetMethods ELSE {})
HostFunction(raw, prop) ==
  IF prop \in EventTargetMethods THEN Native("EventTarget", prop)
  ELSE Native(raw.r, prop)

\* The properties of the host's interfaces, as far as the model names them.
RawProps ==
  [db |-> Methods.db \cup EventTargetMethods \cup {"name"},
   tx |-> Methods.tx \cup EventTargetMethods
            \cup {"objectStoreNames", "mode", "db", "error"},
   store |-> Methods.store \cup {"transaction"},
   index |-> Methods.index \cup {"objectStore"},
   cursor |-> Methods.cursor \cup {"request"},
   req |-> EventTargetMethods \cup {"result", "error"},
   creq |-> EventTargetMethods \cup {"result", "error"}]

\* raw[meth](arg) of the host. A listener is registered once, in the order
\* of the calls; the model keeps the listeners of the objects it delivers
\* events to, the requests and the transactions.
hostCall(st, raw, meth, arg) ==
  CASE meth = "addEventListener" ->  \* arg: the listener [ev, p]
         IF Id(raw) \notin DOMAIN st.lsn
              \/ \E n \in DOMAIN st.lsn[Id(raw)] : st.lsn[Id(raw)][n] = arg
         THEN Result(st, Undefined)
         ELSE Result([st EXCEPT !.lsn[Id(raw)] = Append(@, arg)], Undefined)
    [] meth = "removeEventListener" ->
         IF Id(raw) \notin DOMAIN st.lsn THEN Result(st, Undefined)
         ELSE Result([st EXCEPT !.lsn[Id(raw)] = SelectSeq(@, LAMBDA l : l # arg)],
                     Undefined)
    [] raw.r = "db" /\ meth = "transaction" ->  \* arg: store names, mode
         IF arg[1] = 0 THEN Result(st, Throw("InvalidAccessError"))
         ELSE LET i == nextTx(st)
              IN Result([st EXCEPT !.tx[<<"tx", i>>].state = "active",
                                   !.tx[<<"tx", i>>].names = arg[1],
                                   !.tx[<<"tx", i>>].mode = arg[2]],
                        Raw("tx", i))
    [] raw.r = "tx" /\ meth = "objectStore" ->
         IF \E j \in DOMAIN objectStoreNames(st, raw) :
              objectStoreNames(st, raw)[j] = arg
         THEN Result(st, Raw("store", raw.i))
         ELSE Result(st, Throw("NotFoundError"))
    [] raw.r = "store" /\ meth = "index" -> Result(st, Raw("index", raw.i))
    [] isStoreLike(raw) /\ meth = "openCursor" ->
         Result([st EXCEPT !.req[<<"creq", 0>>].state = "pending",
                           !.cur.step = 1], Raw("creq", 0))
    [] raw.r = "cursor" /\ meth \in advanceMethods ->
         IF st.req[<<"creq", 0>>].state = "error"  \* its transaction aborted
         THEN Result(st, Throw("TransactionInactiveError"))
         ELSE IF gotValue(st)
         THEN Result([st EXCEPT !.req[<<"creq", 0>>].state = "pending",
                                !.cur.step = arg,
                                !.tr.issued = Append(@, arg)], Undefined)
         ELSE Result(st, Throw("InvalidStateError"))
    [] OTHER ->  \* an operation of a store or an index: a new request
         Result([st EXCEPT !.req[<<"req", raw.i>>].state = "pending",
                           !.req[<<"req", raw.i>>].op = meth,
                           !.req[<<"req", raw.i>>].source = raw.r],
                Raw("req", raw.i))

\* raw[prop] of the host: a property a caller has written on the object,
\* or else the function of the interface for a method, the value for an
\* attribute, undefined for a name the object does not have.
hostProp(st, raw, prop) ==
  CASE <<raw, prop>> \in DOMAIN st.own -> st.own[<<raw, prop>>]
    [] prop \in HostMethods(raw) -> HostFunction(raw, prop)
    [] raw.r = "db" /\ prop = "name" -> Prim("name")
    [] raw.r = "tx" /\ prop = "db" -> Raw("db", 0)
    [] raw.r = "tx" /\ prop = "mode" -> Prim(st.tx[Id(raw)].mode)
    [] raw.r = "tx" /\ prop = "error" -> st.tx[Id(raw)].error
    [] raw.r = "tx" /\ prop = "objectStoreNames" ->
         Val("object", "DOMStringList", raw.i, 0, 0)
    [] raw.r = "store" /\ prop = "transaction" -> Raw("tx", raw.i)
    [] raw.r = "index" /\ prop = "objectStore" -> Raw("store", raw.i)
    [] raw.r = "cursor" /\ prop = "request" -> Raw("creq", 0)
    [] OTHER -> Undefined

\* raw[prop] = value of the host, in the strict mode of a module: a TypeError
\* for an attribute of the interface, which has no setter (the attributes the
\* model names are read-only); otherwise value becomes an own property of the
\* object, in front of a method of the same name.
hostSet(st, raw, prop, value) ==
  IF prop \in RawProps[raw.r] \ HostMethods(raw)
  THEN Result(st, Throw("TypeError"))
  ELSE Result([st EXCEPT !.own = (<<raw, prop>> :> value) @@ @], value)

\* prop.replace(/FromIndex$/, ''), on the names the model reads.
FromIndex ==
  [n \in {m \o "FromIndex" : m \in readMethods \cup writeMethods} |->
     CHOOSE m \in readMethods \cup writeMethods : m \o "FromIndex" = n]
targetFuncName(prop) ==
  IF prop \in DOMAIN FromIndex THEN FromIndex[prop] ELSE prop
useIndex(prop) == prop # targetFuncName(prop)
isWrite(prop) == targetFuncName(prop) \in writeMethods

----------------------------------------------------------------------------
\* isIteratorProp, getMethod, the traps of idbProxyTraps and of
\* cursorIteratorTraps, and the functions they return

\* typeof prop === 'string': the one symbol the model reads is
\* Symbol.asyncIterator.
isString(prop) == prop # "Symbol.asyncIterator"

isIteratorProp(target, prop) ==
  IF prop = "Symbol.asyncIterator"
  THEN isStoreLike(target) \/ InstanceOf(target, "IDBCursor")
  ELSE prop = "iterate" /\ isStoreLike(target)

RECURSIVE getMethod(_, _, _), idbProxyTrapsHas(_, _, _), inTarget(_, _, _)

\* `prop in target`: on a proxy this is the has trap of the proxy.
inTarget(st, target, prop) ==
  IF target.k = "raw"
  THEN Result(st, prop \in RawProps[target.r] \/ <<target, prop>> \in DOMAIN st.own)
  ELSE idbProxyTrapsHas(st, st.heap[target].target, prop)

getMethod(st, target, prop) ==
  IF ~InstanceOf(target, "IDBDatabase") THEN Result(st, Undefined)
  ELSE Bind(inTarget(st, target, prop), LAMBDA has :
         IF has.r \/ ~isString(prop)
         THEN Result(has.st, Undefined)
         ELSE IF prop \in DOMAIN has.st.cm THEN Result(has.st, has.st.cm[prop])
         ELSE IF \/ targetFuncName(prop) \notin
                      Methods[IF useIndex(prop) THEN "index" ELSE "store"]
                 \/ ~(isWrite(prop) \/ targetFuncName(prop) \in readMethods)
         THEN Result(has.st, Undefined)
         ELSE Result([has.st EXCEPT !.cm = (prop :> Fn("method", prop)) @@ @],
                     Fn("method", prop)))

\* A has trap without lines 210-214: it answers `prop in target` only.
hasInTarget(st, target, prop) ==
  inTarget(st, target, prop)

idbProxyTrapsHas(st, target, prop) ==
  IF isIteratorProp(target, prop) THEN Result(st, TRUE)
  ELSE Bind(getMethod(st, target, prop), LAMBDA m :
         IF m.r # Undefined THEN Result(m.st, TRUE)
         ELSE IF InstanceOf(target, "IDBTransaction") /\ prop \in {"done", "store"}
         THEN Result(m.st, TRUE)
         ELSE inTarget(m.st, target, prop))

RECURSIVE funcApply(_, _, _, _),
          idbProxyTrapsGet(_, _, _, _), cursorIteratorTrapsGet(_, _, _),
          method(_, _, _), func(_, _, _, _), iterate(_, _)

\* object[prop]: the property of a host object, or the get trap of a proxy.
getProp(st, object, prop) ==
  CASE object.k = "raw" -> Result(st, hostProp(st, object, prop))
    [] object.k = "proxy" ->
         idbProxyTrapsGet(st, st.heap[object].target, prop, object)
    [] object.k = "iter" ->
         cursorIteratorTrapsGet(st, st.heap[object].target, prop)
    [] OTHER -> Result(st, Throw("TypeError"))

\* this[meth](arg): the property is read, and what it returns is called.
callMethod(st, this, meth, arg) ==
  Bind(getProp(st, this, meth), LAMBDA f :
    IF f.r.k = "throw" THEN f
    ELSE IF ~isFunction(f.r) THEN Result(f.st, Throw("TypeError"))
    ELSE funcApply(f.st, f.r, this, arg))

\* What a return statement of the get trap returns. via is history: the
\* statement that returned, "iterate" for line 177, "method" for line 182,
\* "advance" for line 191, "done" for line 196, "store" for lines 200-203,
\* and "target" for lines 179 and 207, which return wrap(target[prop]).
Via(rule, result) ==
  Bind(result, LAMBDA x : [st |-> x.st, r |-> x.r, via |-> rule])

idbProxyTrapsGet(st, target, prop, receiver) ==
  IF isIteratorProp(target, prop)
  THEN Via("iterate", Result(st, Fn("iterate", "iterate")))
  ELSE IF ~isString(prop)
  THEN Via("target", Bind(getProp(st, target, prop), LAMBDA targetProp :
         wrapCall(targetProp.st, targetProp.r)))
  ELSE Bind(getMethod(st, target, prop), LAMBDA m :
         IF m.r # Undefined THEN Via("method", m)
         ELSE IF InstanceOf(target, "IDBCursor") /\ prop \in advanceMethods
         THEN Via("advance",
              Bind(getProp(m.st, target, prop), LAMBDA added :
              Bind(getProp([added.st EXCEPT !.cf = @ \cup {added.r}],
                           target, prop), LAMBDA targetProp :
                wrapCall(targetProp.st, targetProp.r))))
         ELSE IF InstanceOf(target, "IDBTransaction") /\ prop = "done"
         THEN Via("done",
                  Result(m.st, IF target \in DOMAIN m.st.tdm THEN m.st.tdm[target]
                               ELSE Undefined))
         ELSE IF InstanceOf(target, "IDBTransaction") /\ prop = "store"
         THEN Via("store",
                  IF Item(objectStoreNames(m.st, target), 1) # Undefined
                  THEN Result(m.st, Undefined)
                  ELSE callMethod(m.st, receiver, "objectStore",
                                  Item(objectStoreNames(m.st, target), 0)))
         ELSE Via("target",
                  Bind(getProp(m.st, target, prop), LAMBDA targetProp :
                    IF targetProp.r.k = "throw" THEN targetProp
                    ELSE wrapCall(targetProp.st, targetProp.r))))

\* Lines 218-221, and object[prop] = value: the host's assignment on an object
\* of the host, the set trap on a proxy, and on an iteration proxy, whose
\* traps have no set, the assignment on its target. The trap returns true
\* unless the assignment has thrown.
RECURSIVE setProp(_, _, _, _)
idbProxyTrapsSet(st, target, prop, value) ==
  Bind(setProp(st, target, prop, value), LAMBDA set :
    IF set.r.k = "throw" THEN set ELSE Result(set.st, True))

setProp(st, object, prop, value) ==
  CASE object.k = "raw" -> hostSet(st, object, prop, value)
    [] object.k = "proxy" ->
         Bind(idbProxyTrapsSet(st, st.heap[object].target, prop, value),
              LAMBDA trap : IF trap.r.k = "throw" THEN trap
                            ELSE Result(trap.st, value))
    [] object.k = "iter" -> setProp(st, st.heap[object].target, prop, value)
    [] OTHER -> Result(st, Throw("TypeError"))

\* Lines 67-83: another property is the target's; for an advancing method
\* the trap makes func once for the name and returns what cachedMethods has.
cursorIteratorTrapsGet(st, target, prop) ==
  IF ~isString(prop) \/ prop \notin advanceMethods
  THEN getProp(st, target, prop)
  ELSE Bind(IF prop \in DOMAIN st.cm THEN st
            ELSE [st EXCEPT !.cm = (prop :> Fn("func", prop)) @@ @],
            LAMBDA st1 : Result(st1, st1.cm[prop]))

\* f.apply(this, [arg]) for a function f: a method of the host, which needs
\* a host object of its interface as this; a function wrapFunction made, of
\* lines 129-132 if what it wraps was a cursor function then and of lines
\* 138-140 otherwise; a shorthand; func; or iterate.
funcApply(st, f, this, arg) ==
  CASE f.k = "native" ->
         IF this.k = "raw" /\ \E m \in HostMethods(this) : f = HostFunction(this, m)
         THEN hostCall(st, this,
                       CHOOSE m \in HostMethods(this) : f = HostFunction(this, m),
                       arg)
         ELSE Result(st, Throw("TypeError"))
    [] f.k = "wrapped" ->
         Bind(funcApply(st, st.heap[f].target, unwrap(st, this), arg), LAMBDA c :
           IF c.r.k = "throw" THEN c
           ELSE IF st.heap[f].state = "cursorFunction"
           THEN Bind(getProp(c.st, this, "request"), LAMBDA request :
                  wrapCall(request.st, request.r))
           ELSE wrapCall(c.st, c.r))
    [] f.k = "method" -> method(st, this, f.r)
    [] f.k = "func" -> func(st, this, f.r, arg)
    [] f.k = "iterate" -> Result(iterate(st, this), Fn("generator", "iterate"))
    [] OTHER -> Result(st, Throw("TypeError"))

\* Lines 321-323: the promise of the async function, settled by
\* Promise.all([op, done]), which reacts to each of the two that is a
\* promise.
returnAll(st, tx, op, done) ==
  LET ret == Fresh(st.heap, "ret", tx, 0)
  IN Result([st EXCEPT
       !.heap = (ret :> PromiseCell(op, 0)) @@ @,
       !.rx = (IF done = False THEN (op :> ret)
               ELSE (op :> ret) @@ (done :> ret)) @@ @,
       !.sh = (ret :> [op |-> op, done |-> done]) @@ @], ret)

\* method opening its transaction in read-only mode whatever the operation.
methodReadonly(st, this, prop) ==
  Bind(callMethod(st, this, "transaction", <<1, "readonly">>),
       LAMBDA tx :
  Bind(getProp(tx.st, tx.r, "store"),
       LAMBDA store :
  Bind(IF useIndex(prop) THEN callMethod(store.st, store.r, "index", 0)
       ELSE store,
       LAMBDA target :
  Bind(callMethod(target.st, target.r, targetFuncName(prop), 0),
       LAMBDA op :
  Bind(IF isWrite(prop) THEN getProp(op.st, tx.r, "done")
       ELSE Result(op.st, False),
       LAMBDA done : returnAll(done.st, tx.r, op.r, done.r))))))

\* The function getMethod makes for prop (lines 309-324), called on this.
method(st, this, prop) ==
  Bind(callMethod(st, this, "transaction",
                  <<1, IF isWrite(prop) THEN "readwrite" ELSE "readonly">>),
       LAMBDA tx :
  Bind(getProp(tx.st, tx.r, "store"),
       LAMBDA store :
  Bind(IF useIndex(prop) THEN callMethod(store.st, store.r, "index", 0)
       ELSE store,
       LAMBDA target :
  Bind(callMethod(target.st, target.r, targetFuncName(prop), 0),
       LAMBDA op :
  Bind(IF isWrite(prop) THEN getProp(op.st, tx.r, "done")
       ELSE Result(op.st, False),
       LAMBDA done : returnAll(done.st, tx.r, op.r, done.r))))))

----------------------------------------------------------------------------
\* func of cursorIteratorTraps, and iterate

Without(f, x) == [y \in DOMAIN f \ {x} |-> f[y]]

\* Lines 74-77, for the name prop func was made for: it calls the method on
\* the wrapped cursor of this and keeps the promise the call returns.
func(st, this, prop, arg) ==
  IF this \notin DOMAIN st.pcl THEN Result(st, Throw("TypeError"))
  ELSE Bind(callMethod(st, st.pcl[this], prop, arg), LAMBDA result :
         IF result.r.k = "throw" THEN result
         ELSE Result([result.st EXCEPT !.ar = (this :> result.r) @@ @],
                     Undefined))

\* yield proxiedCursor (line 105). The history keeps the position the cursor
\* is on, and opens the record of the pass: the steps of the advances the
\* consumer makes before it resumes the generator, whether it advanced the
\* cursor after that, and whether the generator called cursor.continue()
\* itself.
yield(st) ==
  [st EXCEPT !.it.pc = "yielded",
             !.tr.yielded = Append(@, st.cur.pos),
             !.tr.passes = Append(@, [explicit |-> <<>>, late |-> FALSE,
                                      default |-> FALSE])]

\* Lines 99-105: the iteration proxy of cursor c, and the first yield.
newProxiedCursor(st, c) ==
  LET proxiedCursor == Fresh(st.heap, "iter", c, c.lvl + 1)
  IN yield([st EXCEPT
       !.heap = (proxiedCursor :> ProxyCell(c)) @@ @,
       !.pcl = (proxiedCursor :> c) @@ @,
       !.rtc = (proxiedCursor :> unwrap(st, c)) @@ @,
       !.it.cursor = c,
       !.it.proxiedCursor = proxiedCursor])

\* Lines 97-105: the generator has its cursor c.
enter(st, c) ==
  IF ~ToBoolean(c) THEN [st EXCEPT !.it.pc = "done", !.it.cursor = c]
  ELSE newProxiedCursor(st, c)

\* What the generator awaits (lines 94 and 107): the state and the value of
\* a promise, and a value that is no promise as a promise fulfilled with it.
awaited(st) ==
  IF st.it.awaiting \in DOMAIN st.heap THEN st.heap[st.it.awaiting]
  ELSE [state |-> "fulfilled", value |-> st.it.awaiting]

\* The generator after an await (lines 94 and 107), in the microtask that
\* follows the settling of the promise it awaits. A rejection is thrown out
\* of the generator: the consumer's next() rejects with it, and the generator
\* has ended. Otherwise line 108 deletes what advanceResults holds now.
resume(st) ==
  LET c == awaited(st)
  IN IF st.it.pc \notin {"opening", "advancing"} THEN st
     ELSE IF c.state = "pending" THEN st
     ELSE IF c.state = "rejected"
     THEN [st EXCEPT !.it.pc = "failed", !.it.awaiting = Undefined,
                     !.it.error = c.value]
     ELSE IF st.it.pc = "opening"
     THEN enter([st EXCEPT !.it.awaiting = Undefined], c.value)
     ELSE IF ~ToBoolean(c.value)
     THEN [st EXCEPT !.it.pc = "done", !.it.cursor = c.value,
                     !.it.awaiting = Undefined,
                     !.ar = Without(@, st.it.proxiedCursor)]
     ELSE yield([st EXCEPT !.it.cursor = c.value, !.it.awaiting = Undefined,
                           !.ar = Without(@, st.it.proxiedCursor)])

\* gen.return() while the generator is suspended at the yield of line 105,
\* which a break out of `for await` calls: the generator ends there. Lines
\* 107 and 108 do not run, so the generator calls no continue() and what
\* advanceResults holds stays.
return(st) ==
  [st EXCEPT !.it.pc = "done", !.tr.ended = "return"]

\* gen.throw(e) while the generator is suspended at the yield of line 105:
\* the yield throws e, which nothing catches, and the generator has failed
\* with e.
throw(st, e) ==
  [st EXCEPT !.it.pc = "failed", !.it.error = e, !.tr.ended = "throw"]

\* The call of iterate on this, and the first next() of its generator: up to
\* the yield for a cursor, up to the await of line 94 for a store or an index.
iterate(st, this) ==
  IF InstanceOf(this, "IDBCursor") THEN enter([st EXCEPT !.it.this = this], this)
  ELSE Bind(callMethod(st, this, "openCursor", 0), LAMBDA c :
         IF c.r.k = "throw"
         THEN [c.st EXCEPT !.it.this = this, !.it.pc = "failed",
                           !.it.error = c.r]
         ELSE [c.st EXCEPT !.it.this = this, !.it.pc = "opening",
                           !.it.awaiting = c.r])

\* The generator awaits c.r, or fails with what the call threw. An await
\* suspends the generator also when the promise is settled already, and
\* when what it awaits is no promise:
\* the caller of next() runs on, and the generator goes on in a microtask.
await(c) ==
  IF c.r.k = "throw" THEN [c.st EXCEPT !.it.pc = "failed", !.it.error = c.r]
  ELSE [c.st EXCEPT !.it.pc = "advancing", !.it.awaiting = c.r]

\* cursor.continue() of line 107.
continue(st) ==
  callMethod([st EXCEPT !.tr.passes[Len(st.tr.passes)].default = TRUE],
             st.it.cursor, "continue", 1)

\* next() after a yield (line 107): the generator awaits what the consumer's
\* advance left in advanceResults, or, when that is nothing or is falsy,
\* what its own cursor.continue() returns.
next(st) ==
  await(IF /\ st.it.proxiedCursor \in DOMAIN st.ar
           /\ ToBoolean(st.ar[st.it.proxiedCursor])
        THEN Result(st, st.ar[st.it.proxiedCursor])
        ELSE continue(st))

----------------------------------------------------------------------------
\* The state after the module is loaded, and the steps of callers and host

Empty ==
  [heap |-> <<>>, tc |-> <<>>, rtc |-> <<>>, tdm |-> <<>>, cm |-> <<>>,
   ar |-> <<>>, pcl |-> <<>>, cf |-> {}, rx |-> <<>>, sh |-> <<>>,
   it |-> [pc |-> "idle", this |-> Undefined, cursor |-> Undefined, proxiedCursor |-> Undefined,
           awaiting |-> Undefined, error |-> Undefined],
   lsn |-> [t \in EventTargets |-> <<>>],
   req |-> [q \in RequestIds |->
              [state |-> "none", result |-> Undefined, error |-> Null,
               op |-> "", source |-> ""]],
   tx |-> [t \in TransactionIds |->
             [state |-> "none", error |-> Null, names |-> 1, mode |-> ""]],
   cur |-> [records |-> 0, pos |-> 0, step |-> 0],
   own |-> <<>>,
   sig |-> [t \in EventTargets |-> <<>>],
   log |-> {},
   tr |-> [yielded |-> <<>>, issued |-> <<>>, passes |-> <<>>,
           threw |-> FALSE, ended |-> ""]]

Apply(st) ==
  /\ heap' = st.heap
  /\ transformCache' = st.tc
  /\ reverseTransformCache' = st.rtc
  /\ transactionDoneMap' = st.tdm
  /\ cachedMethods' = st.cm
  /\ advanceResults' = st.ar
  /\ proxiedCursorLookup' = st.pcl
  /\ cursorFunctions' = st.cf
  /\ reactions' = st.rx
  /\ shorthands' = st.sh
  /\ iteration' = st.it
  /\ listeners' = st.lsn
  /\ requests' = st.req
  /\ transactions' = st.tx
  /\ cursor' = st.cur
  /\ properties' = st.own
  /\ signals' = st.sig
  /\ callLog' = st.log
  /\ trace' = st.tr

\* The state st as the initial state.
Start(st) ==
  /\ heap = st.heap
  /\ transformCache = st.tc
  /\ reverseTransformCache = st.rtc
  /\ transactionDoneMap = st.tdm
  /\ cachedMethods = st.cm
  /\ advanceResults = st.ar
  /\ proxiedCursorLookup = st.pcl
  /\ cursorFunctions = st.cf
  /\ reactions = st.rx
  /\ shorthands = st.sh
  /\ iteration = st.it
  /\ listeners = st.lsn
  /\ requests = st.req
  /\ transactions = st.tx
  /\ cursor = st.cur
  /\ properties = st.own
  /\ signals = st.sig
  /\ callLog = st.log
  /\ trace = st.tr

\* Lines 342-343 of openDB: indexedDB.open, and wrap of its request. Called
\* without the terminated and blocking callbacks, the reactions of lines
\* 358-372 register nothing; the upgrade callback is the step Upgrade below.
openDB(st) ==
  wrapCall([st EXCEPT !.req[<<"req", 0>>].state = "pending",
                      !.req[<<"req", 0>>].op = "open"], Raw("req", 0))

\* Lines 384-392 of deleteDB, called without a blocked callback:
\* indexedDB.deleteDatabase, wrap of its request, and the promise
\* `.then(() => {})` makes of the promise wrap returned.
deleteDB(st) ==
  Bind(wrapCall([st EXCEPT !.req[<<"req", 0>>].state = "pending",
                           !.req[<<"req", 0>>].op = "deleteDatabase"],
                Raw("req", 0)), LAMBDA w :
  Bind(Fresh(w.st.heap, "then", Raw("req", 0), 0), LAMBDA promise :
    Result([w.st EXCEPT !.heap = (promise :> PromiseCell(w.r, 0)) @@ @,
                        !.rx = (w.r :> promise) @@ @], promise)))

\* The host signals the success of a request with result: the event, and the
\* listeners it runs.
succeed(st, request, result) ==
  fire([st EXCEPT !.req[request].state = "success",
                  !.req[request].result = result], request, "success", result)

\* The state after `await openDB(name)`: the request has succeeded, and the
\* success listener has wrapped the database and resolved the promise.
Opened == succeed(openDB(Empty).st, <<"req", 0>>, Raw("db", 0))

Init == Start(Empty)

\* The host objects that exist.
Exists(raw) ==
  CASE raw.r = "db" -> /\ requests[<<"req", 0>>].state = "success"
                       /\ requests[<<"req", 0>>].result = raw
    [] raw.r = "tx" -> transactions[Id(raw)].state # "none"
    [] raw.r = "cursor" -> cursor.pos > 0
    [] raw.r \in {"req", "creq"} -> requests[Id(raw)].state # "none"
    [] OTHER -> FALSE

Proxies == {o \in DOMAIN heap : o.k = "proxy"}
PromisesOf(request) ==
  {o \in DOMAIN heap : o.k = "promise" /\ Id(o) = Id(request)}

\* The requests the host has made so far.
Requests ==
  {q \in {Raw("req", i) : i \in 0..MaxCalls} \cup {Raw("creq", 0)} : Exists(q)}

\* The functions of the host's interfaces. A caller holds them at any time:
\* it reads them from a prototype, as IDBCursor.prototype.continue, or from
\* an object.
HostFunctions ==
  UNION {{HostFunction(Raw(r, 0), m) : m \in HostMethods(Raw(r, 0))} :
           r \in DOMAIN Methods}

\* The values a caller holds: the objects and the functions of the host,
\* what this layer has made, and a primitive.
Known ==
  {v \in {Raw("db", 0), Raw("req", 0), Raw("creq", 0), Raw("cursor", 0)}
          \cup {Raw("tx", i) : i \in 0..MaxCalls} : Exists(v)}
    \cup HostFunctions
    \cup DOMAIN heap
    \cup {Prim("v")}

\* The values a request can succeed with: the database for the request of
\* indexedDB.open, undefined for the one of deleteDatabase, and for an
\* operation a key or a stored value, which for get may be NaN. The errors of
\* the host.
RequestResults(request) ==
  IF request = <<"req", 0>>
  THEN IF requests[request].op = "deleteDatabase" THEN {Undefined}
       ELSE {Raw("db", 0)}
  ELSE IF requests[request].op = "get" THEN {Prim("key"), NaN}
  ELSE {Prim("key")}
Errors == {Err("e1")}

\* A caller calls wrap(value).
Wrap(value) ==
  /\ (isProxyable(value) \/ isFunction(value)) => value.lvl < MaxLevel
  /\ InstanceOf(value, "IDBRequest") =>
       Cardinality(PromisesOf(value)) < MaxPromises
  /\ Apply(wrapCall(State, value).st)

\* A caller reads receiver[prop] on a wrapper.
Get(receiver, prop) ==
  Apply(idbProxyTrapsGet(State, heap[receiver].target, prop, receiver).st)

\* A caller calls this.transaction(...) on a wrapped database, for the first
\* transaction of the database.
Call(this, names, mode) ==
  /\ InstanceOf(this, "IDBDatabase")
  /\ transactions[<<"tx", 1>>].state = "none"
  /\ Apply(callMethod(State, this, "transaction", <<names, mode>>).st)

\* A caller calls db.transaction(...) on the raw database, for the first
\* transaction of the database.
RawCall(raw, mode) ==
  /\ Exists(raw)
  /\ transactions[<<"tx", 1>>].state = "none"
  /\ Apply(hostCall(State, raw, "transaction", <<1, mode>>).st)

\* A caller calls openDB(name).
Open ==
  /\ requests[<<"req", 0>>].state = "none"
  /\ Apply(openDB(State).st)

\* A caller calls deleteDB(name).
DeleteDB ==
  /\ requests[<<"req", 0>>].state = "none"
  /\ Apply(deleteDB(State).st)

\* The host signals the success of a one-shot request.
Success(request, result) ==
  /\ requests[request].state = "pending"
  /\ Apply(succeed(State, request, result))

\* The host signals the failure of a one-shot request. The error event of a
\* request of a transaction bubbles to the transaction, whose error is not
\* set yet.
Error(request, e) ==
  /\ requests[request].state = "pending"
  /\ Apply(Bind(fire([State EXCEPT !.req[request].state = "error",
                                   !.req[request].error = e],
                     request, "error", e),
                LAMBDA st1 :
       IF /\ request[2] \in 1..MaxCalls
          /\ st1.tx[<<"tx", request[2]>>].state = "active"
       THEN fire(st1, <<"tx", request[2]>>, "error", Null) ELSE st1))

\* The host signals the completion of a transaction.
Complete(tx) ==
  /\ transactions[tx].state = "active"
  /\ Apply(fire([State EXCEPT !.tx[tx].state = "complete"], tx, "complete", Null))

\* The error event of a failed request the caller made on the raw objects
\* reaches its transaction, whose error is not set yet.
ErrorEvent(tx) ==
  /\ transactions[tx].state = "active"
  /\ Len(SelectSeq(signals[tx], LAMBDA e : e.ev = "error")) < MaxErrorEvents
  /\ Apply(fire(State, tx, "error", Null))

\* The host signals the abort of a transaction, with its error set or not.
Abort(tx, e) ==
  /\ transactions[tx].state = "active"
  /\ Apply(fire([State EXCEPT !.tx[tx].state = "aborted", !.tx[tx].error = e],
                tx, "abort", e))

\* Of the functions of the host, the callers of this specification wrap the
\* one the steps of this specification call, transaction of a database.
Next ==
  \/ \E value \in (Known \ HostFunctions) \cup {Native("db", "transaction")} :
       Wrap(value)
  \/ \E receiver \in Proxies, prop \in {"done", "db"} : Get(receiver, prop)
  \/ \E this \in Proxies : Call(this, 1, "readwrite")
  \/ RawCall(Raw("db", 0), "readwrite")
  \/ Open
  \/ DeleteDB
  \/ \E result \in RequestResults(<<"req", 0>>) : Success(<<"req", 0>>, result)
  \/ \E e \in Errors : Error(<<"req", 0>>, e)
  \/ \E t \in TransactionIds : Complete(t)
  \/ \E t \in TransactionIds : ErrorEvent(t)
  \/ \E t \in TransactionIds, e \in Errors \cup {Null} : Abort(t, e)

Spec == Init /\ [][Next]_vars

----------------------------------------------------------------------------
\* The claims checked under Spec

RequestPromises == {o \in DOMAIN heap : o.k = "promise"}
DonePromises == {o \in DOMAIN heap : o.k = "done"}

\* What reading receiver.done returns in the current state.
DoneRead(receiver) ==
  idbProxyTrapsGet(State, heap[receiver].target, "done", receiver).r

\* C1: every call wrap(r) on a raw proxyable object r has returned the same
\* wrapped object, which is the forward entry of r, and whose reverse entry
\* is r.
C1_WrapSameObject ==
  \A e \in callLog :
    (e.arg.k = "raw" /\ isProxyable(e.arg)) =>
      /\ \A f \in callLog : f.arg = e.arg => f.res = e.res
      /\ e.arg \in DOMAIN transformCache
      /\ transformCache[e.arg] = e.res
      /\ unwrap(State, e.res) = e.arg

\* wrap(db) was called by the success listeners of two promises and both
\* resolved with the one wrapper, and a transaction was wrapped and settled.
C1_Witness ==
  /\ \E p1, p2 \in RequestPromises :
       /\ p1 # p2
       /\ heap[p1].state = "fulfilled" /\ heap[p2].state = "fulfilled"
       /\ heap[p1].value = heap[p2].value
       /\ heap[p1].value.k = "proxy"
  /\ Raw("tx", 1) \in DOMAIN transformCache
  /\ transactions[<<"tx", 1>>].state = "complete"

\* C3 as stated: wrap applied to a wrapped object returns that object, and
\* no wrapper of a wrapper exists.
C3_WrapOfWrapped ==
  /\ \A e \in callLog : e.arg.k = "proxy" => e.res = e.arg
  /\ \A o \in Proxies : o.lvl = 1

\* wrap(wrap(db)) has returned a second proxy, whose target is the first.
C3_Witness ==
  \E e \in callLog :
    /\ e.arg.k = "proxy" /\ e.arg.lvl = 1 /\ InstanceOf(e.arg, "IDBDatabase")
    /\ e.res.k = "proxy" /\ e.res.lvl = 2
    /\ heap[e.res].target = e.arg

C5_OneDonePromise ==
  \A t \in TransactionIds :
    /\ Cardinality({d \in DonePromises : Id(d) = t}) <= 1
    /\ \A w1, w2 \in {w \in Proxies : Id(w) = t} : DoneRead(w1) = DoneRead(w2)

\* A transaction with two completion promises, one read as done on its
\* wrapper and the other on the wrapper of that wrapper.
C5_Witness ==
  \E w1, w2 \in Proxies :
    /\ InstanceOf(w1, "IDBTransaction")
    /\ heap[w2].target = w1
    /\ DoneRead(w1) \in DonePromises
    /\ DoneRead(w2) \in DonePromises
    /\ DoneRead(w1) # DoneRead(w2)

\* C6: the first event a transaction fires after its completion promise was
\* made decides the promise: complete fulfils it with undefined, error and
\* abort reject it with the transaction's error, or with an AbortError when
\* none is set; before that event it is pending, and later events change
\* nothing.
C6_DonePromise ==
  \A d \in DonePromises :
    LET c == heap[d]
        t == Id(d)
    IN IF Len(signals[t]) > c.born
       THEN LET f == signals[t][c.born + 1]
            IN /\ f.ev = "complete" =>
                    c.state = "fulfilled" /\ c.value = Undefined
               /\ f.ev \in {"error", "abort"} =>
                    /\ c.state = "rejected"
                    /\ c.value = IF f.val # Null THEN f.val ELSE AbortError
       ELSE c.state = "pending"

\* A completion promise rejected with the generic AbortError by an error
\* event, and left so by the abort that followed with the error set.
C6_Witness ==
  \E d \in DonePromises :
    /\ heap[d].state = "rejected"
    /\ heap[d].value = AbortError
    /\ transactions[Id(d)].state = "aborted"
    /\ transactions[Id(d)].error \in Errors

----------------------------------------------------------------------------
\* Iteration: a store and an index with 0..MaxRecords matching records

Steps(meth) == IF meth = "advance" THEN 1..MaxStep ELSE {1}

\* A caller calls openCursor() on a wrapped store or index.
OpenCursor(this) ==
  /\ isStoreLike(this)
  /\ iteration.pc = "idle"
  /\ requests[<<"creq", 0>>].state = "none"
  /\ Apply(callMethod(State, this, "openCursor", 0).st)

\* A caller wraps a wrapper of the cursor.
WrapCursor(value) ==
  /\ InstanceOf(value, "IDBCursor")
  /\ value.lvl < MaxLevel
  /\ iteration.pc = "idle"
  /\ Apply(wrapCall(State, value).st)

\* A consumer starts to iterate a wrapped store or index, or a wrapped
\* cursor that is on a record.
Iterate(this) ==
  /\ iteration.pc = "idle"
  /\ isIteratorProp(heap[this].target, "Symbol.asyncIterator")
  /\ IF InstanceOf(this, "IDBCursor") THEN gotValue(State)
     ELSE requests[<<"creq", 0>>].state = "none"
  /\ Apply(iterate(State, this))

\* The generator has a microtask to run: it awaits a promise that is
\* settled, or a value that is no promise.
MicrotaskPending ==
  /\ iteration.pc \in {"opening", "advancing"}
  /\ awaited(State).state # "pending"

\* The consumer calls an advancing method on the yielded cursor in the body
\* of its loop, before it resumes the generator.
Advance(meth, n) ==
  /\ iteration.pc = "yielded"
  /\ Apply(Bind(callMethod(State, iteration.proxiedCursor, meth, n), LAMBDA c :
       IF c.r.k = "throw"
       THEN [c.st EXCEPT !.tr.threw = TRUE]
       ELSE [c.st EXCEPT !.tr.passes[Len(trace.passes)].explicit = Append(@, n)]))

\* The consumer calls an advancing method on the yielded cursor after it has
\* resumed the generator with next(), while the generator is at the await of
\* line 107: `gen.next(); cursor.continue()`.
AdvanceLate(meth, n) ==
  /\ iteration.pc = "advancing"
  /\ Apply(Bind(callMethod(State, iteration.proxiedCursor, meth, n), LAMBDA c :
       IF c.r.k = "throw"
       THEN [c.st EXCEPT !.tr.threw = TRUE]
       ELSE [c.st EXCEPT !.tr.passes[Len(trace.passes)].late = TRUE]))

\* The consumer asks for the next position: next() runs the generator from
\* the yield to the await of line 107.
NextPosition ==
  /\ iteration.pc = "yielded"
  /\ Apply(next(State))

\* The consumer ends the iteration on the position it is on: it breaks out of
\* its `for await` loop, or calls gen.return() itself.
Return ==
  /\ iteration.pc = "yielded"
  /\ Apply(return(State))

\* The consumer throws e into the generator on the position it is on:
\* gen.throw(e).
ThrowInto(e) ==
  /\ iteration.pc = "yielded"
  /\ Apply(throw(State, e))

\* What a consumer throws into the generator.
ConsumerErrors == {Err("thrown")}

\* The microtask of the generator, after the await of a settled promise.
Resume ==
  /\ MicrotaskPending
  /\ Apply(resume(State))

\* The host moves the cursor and signals the success of its request, in a
\* task of its own; the generator, if it awaits the promise a listener
\* settles, goes on in the microtask that follows the listener.
CursorSuccess ==
  /\ requests[<<"creq", 0>>].state = "pending"
  /\ ~MicrotaskPending
  /\ LET pos == cursor.pos + cursor.step
         onRecord == pos <= cursor.records
         result == IF onRecord THEN Raw("cursor", 0) ELSE Null
     IN Apply(resume(fire(
          [State EXCEPT !.req[<<"creq", 0>>].state = "success",
                        !.req[<<"creq", 0>>].result = result,
                        !.cur.pos = IF onRecord THEN pos ELSE cursor.records + 1,
                        !.cur.step = 0],
          <<"creq", 0>>, "success", result)))

\* The host signals the failure of the cursor's request.
CursorError(e) ==
  /\ requests[<<"creq", 0>>].state = "pending"
  /\ ~MicrotaskPending
  /\ Apply(resume(fire(
       [State EXCEPT !.req[<<"creq", 0>>].state = "error",
                     !.req[<<"creq", 0>>].error = e,
                     !.cur.step = 0],
       <<"creq", 0>>, "error", e)))

\* The database is open and wrapped, transaction 0 is active on its one
\* store of n records, and the store and its index are wrapped.
InitIter ==
  \E n \in 0..MaxRecords :
    Start(wrapCall(wrapCall([Opened EXCEPT !.cur.records = n,
                                           !.tx[<<"tx", 0>>].state = "active",
                                           !.tx[<<"tx", 0>>].mode = "readonly"],
                            Raw("store", 0)).st, Raw("index", 0)).st)

NextIter ==
  \/ \E this \in Proxies : OpenCursor(this)
  \/ \E value \in Proxies : WrapCursor(value)
  \/ \E value \in Known \cap {Native("cursor", "continue")} : Wrap(value)
  \/ \E this \in Proxies : Iterate(this)
  \/ \E meth \in {"advance", "continue"} : \E n \in Steps(meth) :
       Advance(meth, n)
  \/ NextPosition
  \/ Return
  \/ \E e \in ConsumerErrors : ThrowInto(e)
  \/ Resume
  \/ CursorSuccess
  \/ \E e \in Errors : CursorError(e)

SpecIter == InitIter /\ [][NextIter]_vars

\* The iteration of a store or an index by a consumer that may also advance
\* the cursor after it has resumed the generator.
NextLate ==
  \/ \E value \in Known \cap {Native("cursor", "continue")} : Wrap(value)
  \/ \E this \in Proxies : Iterate(this)
  \/ \E meth \in advanceMethods : \E n \in Steps(meth) : Advance(meth, n)
  \/ \E meth \in advanceMethods : \E n \in Steps(meth) : AdvanceLate(meth, n)
  \/ NextPosition
  \/ Return
  \/ \E e \in ConsumerErrors : ThrowInto(e)
  \/ Resume
  \/ CursorSuccess
  \/ \E e \in Errors : CursorError(e)

SpecLate == InitIter /\ [][NextLate]_vars

----------------------------------------------------------------------------
\* The claims checked under SpecIter

\* The positions a raw cursor over N records is on when it is opened and
\* then advanced by each of steps in turn, until it runs off the records.
RECURSIVE Drive(_, _, _, _)
Drive(N, steps, pos, out) ==
  IF pos > N THEN out
  ELSE IF steps = <<>> THEN Append(out, pos)
  ELSE Drive(N, Tail(steps), pos + Head(steps), Append(out, pos))
RawDrive(N, steps) == Drive(N, steps, 1, <<>>)

\* The passes that are over: the consumer has resumed the generator from
\* their position. The pass of the position the consumer is still on, or has
\* ended the iteration on, is not.
Completed(i) ==
  i < Len(trace.passes) \/ (iteration.pc # "yielded" /\ trace.ended = "")

\* transformCache holds, for the host's continue of a cursor, a function of
\* lines 138-140: a caller has wrapped the host's function before any wrapped
\* cursor read it, when cursorFunctions did not hold it (line 124).
PlainContinue ==
  /\ Native("cursor", "continue") \in DOMAIN transformCache
  /\ heap[transformCache[Native("cursor", "continue")]].state = "function"

\* The host has run the cursor off its records.
Exhausted ==
  /\ requests[<<"creq", 0>>].state = "success"
  /\ cursor.pos = cursor.records + 1

\* C2 as stated: unwrap of the wrapper of a raw proxyable object is that
\* object, unwrap of the promise of a request is the request, and unwrap of
\* the cursor an iteration yields is the raw cursor.
C2_UnwrapRaw ==
  /\ \A e \in callLog :
       e.arg.k = "raw" => unwrap(State, e.res) = e.arg
  /\ iteration.proxiedCursor # Undefined =>
       unwrap(State, iteration.proxiedCursor) = Raw("cursor", 0)

\* The iteration of a wrapper of the wrapped cursor has yielded a proxy that
\* unwrap maps to the wrapped cursor.
C2_Witness ==
  /\ iteration.pc = "yielded"
  /\ iteration.this.k = "proxy" /\ iteration.this.lvl = 2
  /\ unwrap(State, iteration.proxiedCursor) = transformCache[Raw("cursor", 0)]

\* C7 as stated: as long as the consumer of an iteration of a store or an
\* index has
\* called no advancing method, the positions yielded are 1, 2, ... in order
\* and at most N; the generator has called continue() once after every
\* position the consumer has resumed it from, and the host has seen exactly
\* these advances; when the host has run the cursor off the records the
\* iteration has ended after N positions (none, and no advance, when N = 0);
\* and an iteration its consumer has not ended itself ends only so. When the
\* consumer ends it on a position, by return or by throw, the generator has
\* ended or failed there, and has called no continue() after that position.
C7_DefaultIteration ==
  LET N == cursor.records
      P == trace.passes
      passive == ~trace.threw /\ \A i \in DOMAIN P : P[i].explicit = <<>>
  IN (isStoreLike(iteration.this) /\ passive) =>
       /\ trace.yielded = [i \in 1..Len(P) |-> i]
       /\ Len(trace.yielded) <= N
       /\ \A i \in DOMAIN P : P[i].default = Completed(i)
       /\ trace.issued = [i \in 1..Cardinality({j \in DOMAIN P : Completed(j)}) |-> 1]
       /\ Exhausted => iteration.pc = "done" /\ Len(trace.yielded) = N
       /\ (iteration.pc = "done" /\ trace.ended = "") => Exhausted
       /\ trace.ended = "return" =>
            /\ iteration.pc = "done"
            /\ Len(trace.issued) = Len(trace.yielded) - 1
       /\ trace.ended = "throw" =>
            /\ iteration.pc = "failed" /\ iteration.error \in ConsumerErrors
            /\ Len(trace.issued) = Len(trace.yielded) - 1

\* A caller has wrapped IDBCursor.prototype.continue, and a consumer has then
\* iterated a store of MaxRecords records with no advance of its own: the
\* generator called cursor.continue() after the first position, the function
\* of lines 138-140 returned undefined, and the iteration has ended after one
\* position, with the advance pending in the host and no listener on its
\* request.
C7_Witness ==
  /\ PlainContinue
  /\ isStoreLike(iteration.this)
  /\ iteration.pc = "done"
  /\ trace.ended = "" /\ ~trace.threw
  /\ cursor.records = MaxRecords
  /\ trace.yielded = <<1>>
  /\ trace.issued = <<1>>
  /\ \A i \in DOMAIN trace.passes : trace.passes[i].explicit = <<>>
  /\ requests[<<"creq", 0>>].state = "pending"
  /\ listeners[<<"creq", 0>>] = <<>>

\* C8 as stated: as long as the consumer has called exactly one advancing
\* method in
\* every pass that is over (and at most one in the one it is on or has ended
\* the iteration on), the generator has called continue() in no pass, the
\* advances the host has seen are the consumer's, one per pass, no call has
\* thrown and the generator has not failed without an error of the host or
\* of the consumer, and the positions yielded are the first of those of a raw
\* cursor driven with the same advances: all of them when the iteration has
\* ended without the consumer ending it.
C8_ExplicitAdvance ==
  LET N == cursor.records
      P == trace.passes
      one == ~trace.threw /\ \A i \in DOMAIN P :
               /\ ~P[i].late
               /\ Len(P[i].explicit) <= 1
               /\ Completed(i) => Len(P[i].explicit) = 1
      n == Cardinality({i \in DOMAIN P : P[i].explicit # <<>>})
      calls == [i \in 1..n |-> P[i].explicit[1]]
      D == RawDrive(N, calls)
  IN (iteration.pc \notin {"idle", "opening"} /\ one) =>
       /\ \A i \in DOMAIN P : ~P[i].default
       /\ trace.issued = calls
       /\ Len(trace.yielded) <= Len(D)
       /\ trace.yielded = SubSeq(D, 1, Len(trace.yielded))
       /\ (iteration.pc = "done" /\ trace.ended = "") =>
            trace.yielded = D /\ Exhausted
       /\ (Exhausted /\ n = Len(P) /\ trace.ended = "") =>
            iteration.pc \in {"done", "yielded"} \/ MicrotaskPending
       /\ iteration.pc = "failed" =>
            IF trace.ended = "throw" THEN iteration.error \in ConsumerErrors
            ELSE requests[<<"creq", 0>>].state = "error"
       /\ trace.ended = "return" => iteration.pc = "done"

\* A caller has wrapped IDBCursor.prototype.continue; the consumer of an
\* iteration called continue() on the first position, the host signalled the
\* success of that advance, and when the consumer asked for the next position
\* the generator called cursor.continue() as well: two advances in one pass.
\* The iteration has ended after one position of three.
C8_Witness ==
  /\ PlainContinue
  /\ iteration.pc = "done"
  /\ trace.ended = "" /\ ~trace.threw
  /\ cursor.records = 3
  /\ Len(trace.passes) = 1
  /\ trace.passes[1].explicit = <<1>> /\ ~trace.passes[1].late
  /\ trace.passes[1].default
  /\ trace.yielded = <<1>>
  /\ trace.issued = <<1, 1>>

----------------------------------------------------------------------------
\* Shorthands: the database is open and wrapped, and callers call the
\* synthesized methods on it. The host delivers the events of a request and
\* of its transaction in any order.

ShorthandProps ==
  {"put", "add", "delete", "clear", "get", "getAll", "getFromIndex",
   "countFromIndex"}

\* A caller calls this[prop](storeName, ...) on a wrapped database: the get
\* trap finds or makes the shorthand, which is then called on this.
Shorthand(this, prop) ==
  /\ InstanceOf(this, "IDBDatabase")
  /\ \E i \in 1..MaxCalls : transactions[<<"tx", i>>].state = "none"
  /\ Apply(callMethod(State, this, prop, 0).st)

InitShort == Start(Opened)

NextShort ==
  \/ \E this \in Proxies, prop \in ShorthandProps : Shorthand(this, prop)
  \/ \E i \in 1..MaxCalls : \E result \in RequestResults(<<"req", i>>) :
       Success(<<"req", i>>, result)
  \/ \E i \in 1..MaxCalls, e \in Errors : Error(<<"req", i>>, e)
  \/ \E t \in TransactionIds : Complete(t)
  \/ \E t \in TransactionIds, e \in Errors \cup {Null} : Abort(t, e)

SpecShort == InitShort /\ [][NextShort]_vars

----------------------------------------------------------------------------
\* The claims checked under SpecShort

\* The promises the write shorthands have returned.
Writes == {ret \in DOMAIN shorthands : shorthands[ret].done # False}

Fired(target, ev) == \E n \in DOMAIN signals[target] : signals[target][n].ev = ev

\* C9: the promise of a write shorthand is fulfilled only when its
\* transaction has emitted complete, and then with the value the operation's
\* promise has, which is wrap of the result of the operation's request; and
\* it is fulfilled once the request has succeeded and the transaction has
\* completed, in either order.
C9_WriteResolves ==
  \A ret \in Writes :
    LET call == shorthands[ret]
        tx == Id(ret)
        request == Id(call.op)
    IN /\ heap[ret].state = "fulfilled" =>
            /\ Fired(tx, "complete")
            /\ requests[request].state = "success"
            /\ heap[ret].value = wrap(State, requests[request].result).r
       /\ (Fired(request, "success") /\ Fired(tx, "complete")) =>
            heap[ret].state = "fulfilled"

\* A write whose transaction completed before its request succeeded, and
\* whose promise is fulfilled with the key the request produced.
C9_Witness ==
  \E ret \in Writes :
    /\ heap[ret].state = "fulfilled"
    /\ heap[ret].value = Prim("key")
    /\ heap[shorthands[ret].done].at < heap[shorthands[ret].op].at

\* C10: both promises of a write shorthand have the reaction of its
\* Promise.all, and the shorthand's promise is rejected exactly when one of
\* the two is, with the reason of the one that was rejected first.
C10_WriteRejects ==
  \A ret \in Writes :
    LET call == shorthands[ret]
        rejected == {q \in {call.op, call.done} : heap[q].state = "rejected"}
    IN /\ call.op \in DOMAIN reactions /\ reactions[call.op] = ret
       /\ call.done \in DOMAIN reactions /\ reactions[call.done] = ret
       /\ heap[ret].state = "rejected" <=> rejected # {}
       /\ \A q \in rejected :
            (\A o \in rejected : heap[q].at <= heap[o].at) =>
              heap[ret].value = heap[q].value

\* A write whose request failed, rejecting the operation's promise, before
\* the error event reached the transaction and rejected the completion
\* promise with another reason: the shorthand has the reason of the request.
C10_Witness ==
  \E ret \in Writes :
    LET call == shorthands[ret]
    IN /\ heap[call.op].state = "rejected"
       /\ heap[call.done].state = "rejected"
       /\ heap[call.op].at < heap[call.done].at
       /\ heap[call.op].value # heap[call.done].value
       /\ heap[ret].value = heap[call.op].value

----------------------------------------------------------------------------
\* Property reads on a wrapped database

\* Names that are no property of a database and whose base operation is not
\* a read or write method, or is no method of the store or index it names.
UnsupportedProps ==
  {"continue", "advance", "continuePrimaryKey", "putFromIndex",
   "clearFromIndex", "openCursor", "frobnicate"}

\* What reading receiver[prop] returns in the current state.
Read(receiver, prop) ==
  idbProxyTrapsGet(State, heap[receiver].target, prop, receiver)

\* C11 as stated: in every state, reading an unsupported name on a wrapped
\* database returns undefined.
C11_UnsupportedAbsent ==
  \A db \in Proxies :
    InstanceOf(db, "IDBDatabase") =>
      \A prop \in UnsupportedProps : Read(db, prop).r = Undefined

\* The consumer of an iteration has called continue() on the yielded cursor,
\* and reading db.continue on the wrapped database returns the function
\* cursorIteratorTraps cached under that name.
C11_Witness ==
  /\ "continue" \in DOMAIN cachedMethods
  /\ \E db \in Proxies :
       /\ InstanceOf(db, "IDBDatabase")
       /\ Read(db, "continue").r = Fn("func", "continue")

----------------------------------------------------------------------------
\* Transactions of zero, one or several stores

\* The upgradeneeded listener of openDB: the host has made the versionchange
\* transaction of the open request, which spans the n stores the database
\* has, and the listener wraps request.result and request.transaction.
Upgrade(n) ==
  /\ requests[<<"req", 0>>].state = "pending"
  /\ requests[<<"req", 0>>].op = "open"
  /\ requests[<<"req", 0>>].result = Undefined
  /\ transactions[<<"tx", 1>>].state = "none"
  /\ Apply(wrapCall(wrapCall([State EXCEPT
                                !.req[<<"req", 0>>].result = Raw("db", 0),
                                !.tx[<<"tx", 1>>].state = "active",
                                !.tx[<<"tx", 1>>].names = n,
                                !.tx[<<"tx", 1>>].mode = "versionchange"],
                              Raw("db", 0)).st, Raw("tx", 1)).st)

\* A caller evaluates `prop in receiver` on a wrapper.
Has(receiver, prop) ==
  Apply(idbProxyTrapsHas(State, heap[receiver].target, prop).st)

\* A caller assigns receiver[prop] = value on a wrapper.
Set(receiver, prop, value) ==
  /\ Cardinality(DOMAIN properties \cup {<<Raw(receiver.r, receiver.i), prop>>})
       <= MaxWrites
  /\ Apply(idbProxyTrapsSet(State, heap[receiver].target, prop, value).st)

\* A caller calls this.index(name) on a wrapped store.
Index(this) ==
  /\ InstanceOf(this, "IDBObjectStore")
  /\ Apply(callMethod(State, this, "index", 0).st)

\* The names a caller writes: a shorthand of a database, which is a method
\* of a store and of an index, and a name nothing has.
WrittenProps == {"get", "frobnicate"}

\* openDB has called indexedDB.open and has wrapped the request; the store of
\* the database has a record.
InitProps == Start([openDB(Empty).st EXCEPT !.cur.records = 1])

NextProps ==
  \/ \E n \in 0..MaxStores : Upgrade(n)
  \/ Success(<<"req", 0>>, Raw("db", 0))
  \/ \E value \in {v \in Proxies : InstanceOf(v, "IDBTransaction")} : Wrap(value)
  \/ \E receiver \in Proxies, prop \in {"store", "done"} : Get(receiver, prop)
  \/ \E receiver \in Proxies, prop \in {"get", "store"} : Has(receiver, prop)
  \/ \E receiver \in {w \in Proxies : InstanceOf(w, "IDBDatabase")
                                        \/ InstanceOf(w, "IDBObjectStore")} :
       \E prop \in WrittenProps : Set(receiver, prop, Prim("v"))
  \/ \E this \in Proxies : Index(this)
  \/ \E this \in Proxies : OpenCursor(this)
  \/ CursorSuccess

SpecProps == InitProps /\ [][NextProps]_vars

\* C12 as stated: reading store on a wrapped transaction returns a wrapper of
\* the transaction's object store when the transaction lists exactly one
\* store name, and undefined when it lists none or more than one.
C12_StoreProperty ==
  \A tx \in Proxies :
    InstanceOf(tx, "IDBTransaction") =>
      IF transactions[Id(tx)].names = 1
      THEN /\ Read(tx, "store").r.k = "proxy"
           /\ InstanceOf(Read(tx, "store").r, "IDBObjectStore")
           /\ Read(tx, "store").r.i = tx.i
      ELSE Read(tx, "store").r = Undefined

\* The versionchange transaction of a database without stores is wrapped, and
\* reading its store property throws the NotFoundError of objectStore.
C12_Witness ==
  \E tx \in Proxies :
    /\ InstanceOf(tx, "IDBTransaction")
    /\ transactions[Id(tx)].names = 0
    /\ Read(tx, "store").r = Throw("NotFoundError")

----------------------------------------------------------------------------
\* Values that wrap passes through

\* Values that are no host object of a proxyable type, no function and no
\* request: primitives, NaN among them, null, undefined, an error and a plain
\* object.
PlainValues ==
  {Prim("v"), Prim("key"), NaN, Undefined, Null, False, Err("e1"),
   Val("object", "DOMStringList", 0, 0, 0)}

\* C13 as stated: wrap of a plain value, or of a promise wrap has made,
\* returns the value itself and changes neither transformCache nor
\* reverseTransformCache; no plain value is a key of either, so unwrap of it
\* returns undefined; and a promise whose one-shot request succeeded with a
\* plain result is fulfilled with that result itself.
C13_PlainValue ==
  /\ \A v \in PlainValues \cup RequestPromises \cup DonePromises :
       /\ wrap(State, v).r = v
       /\ wrap(State, v).st.tc = transformCache
       /\ wrap(State, v).st.rtc = reverseTransformCache
  /\ \A v \in PlainValues :
       /\ v \notin DOMAIN transformCache
       /\ unwrap(State, v) = Undefined
  /\ \A p \in RequestPromises :
       (/\ Id(p) # <<"creq", 0>>
        /\ heap[p].state = "fulfilled"
        /\ requests[Id(p)].result \in PlainValues)
         => heap[p].value = requests[Id(p)].result

\* The request of a get shorthand has succeeded with NaN: the success
\* listener has called wrap(NaN), which threw a TypeError and left both
\* caches as they were, so the promise of the request is pending still, with
\* its listeners registered, and so is the promise the shorthand returned;
\* wrap of another primitive returns it.
C13_Witness ==
  \E ret \in DOMAIN shorthands :
    LET p == shorthands[ret].op
    IN /\ requests[Id(p)].state = "success"
       /\ requests[Id(p)].result = NaN
       /\ [arg |-> NaN, res |-> Throw("TypeError")] \in callLog
       /\ NaN \notin DOMAIN transformCache
       /\ NaN \notin DOMAIN reverseTransformCache
       /\ heap[p].state = "pending" /\ heap[ret].state = "pending"
       /\ \E n \in DOMAIN listeners[Id(p)] : listeners[Id(p)][n].p = p
       /\ wrap(State, Prim("v")).r = Prim("v")

----------------------------------------------------------------------------
\* Several advances in one pass of an iteration

Min(a, b) == IF a < b THEN a ELSE b

RECURSIVE SeqSum(_)
SeqSum(seq) == IF seq = <<>> THEN 0 ELSE Head(seq) + SeqSum(Tail(seq))

\* The promise made last from the cursor's request.
LastPromise ==
  CHOOSE p \in PromisesOf(Raw("creq", 0)) :
    \A q \in PromisesOf(Raw("creq", 0)) : q.s <= p.s

\* C14 as stated: while the consumer is on a yielded position, and after it
\* has ended
\* the iteration on one, advanceResults holds an entry for the yielded cursor
\* exactly if the consumer has advanced it in this pass, and the entry is the
\* promise of the last of these calls; when the consumer resumes after such
\* calls the generator awaits that promise; the entry is gone when the next
\* pass begins and when the iteration has ended by itself, also an entry made
\* after the consumer resumed, which the generator never awaits; the
\* generator has called continue() in exactly the passes the consumer has
\* resumed it from without an advance before; and each position yielded is
\* the one before moved by all these advances of its pass, or by one, unless
\* the cursor was advanced after the consumer resumed in the pass before.
C14_LastAdvance ==
  LET P == trace.passes
      proxiedCursor == iteration.proxiedCursor
  IN /\ (iteration.pc = "yielded" \/ trace.ended # "") =>
          /\ proxiedCursor \in DOMAIN advanceResults <=> P[Len(P)].explicit # <<>>
          /\ proxiedCursor \in DOMAIN advanceResults =>
               advanceResults[proxiedCursor] = LastPromise
     /\ (iteration.pc = "advancing" /\ P[Len(P)].explicit # <<>>) =>
          IF P[Len(P)].late
          THEN /\ advanceResults[proxiedCursor] = LastPromise
               /\ iteration.awaiting # LastPromise
          ELSE /\ iteration.awaiting = advanceResults[proxiedCursor]
               /\ iteration.awaiting = LastPromise
     /\ (iteration.pc = "done" /\ trace.ended = "") =>
          proxiedCursor \notin DOMAIN advanceResults
     /\ \A i \in DOMAIN P :
          IF Completed(i) THEN P[i].default <=> P[i].explicit = <<>>
          ELSE ~P[i].default
     /\ \A i \in 1..(Len(trace.yielded) - 1) :
          (i > 1 => ~P[i - 1].late) =>
            trace.yielded[i + 1] =
              trace.yielded[i] + (IF P[i].explicit = <<>> THEN 1
                                  ELSE SeqSum(P[i].explicit))

\* A caller has wrapped IDBCursor.prototype.continue; the consumer of an
\* iteration called advance(1) and, after the host signalled its success,
\* continue() on the first position: advanceResults holds undefined, what
\* the last call returned, and not a promise. When the consumer asked for the
\* next position the generator called cursor.continue() itself, which the
\* host refused while the consumer's advance is pending, and has failed.
C14_Witness ==
  /\ PlainContinue
  /\ iteration.pc = "failed"
  /\ iteration.error = Throw("InvalidStateError")
  /\ trace.ended = "" /\ ~trace.threw
  /\ Len(trace.passes) = 1
  /\ trace.passes[1].explicit = <<1, 1>> /\ ~trace.passes[1].late
  /\ trace.passes[1].default
  /\ iteration.proxiedCursor \in DOMAIN advanceResults
  /\ advanceResults[iteration.proxiedCursor] = Undefined
  /\ requests[<<"creq", 0>>].state = "pending"

----------------------------------------------------------------------------
\* Explicit advances and the time of the success signal

\* The listeners of promise p are registered on the cursor's request.
Listening(p) ==
  \A ev \in {"success", "error"} :
    \E n \in DOMAIN listeners[<<"creq", 0>>] :
      listeners[<<"creq", 0>>][n] = [ev |-> ev, p |-> p]

\* C15 as stated: in a pass in which the consumer has advanced the yielded
\* cursor, the
\* promise kept for the generator listens on the cursor's request from the
\* call on and as long as the request is pending; if the host signals success
\* before the consumer resumes the generator, the promise holds the outcome,
\* and if it signals afterwards, the generator is still waiting for it, so
\* the generator never waits for a signal that has passed; either way the
\* generator calls no continue() of its own and the position yielded next is
\* the one the cursor was moved to by the consumer's advances: no position
\* follows only when these advances ran off the records, the request has
\* failed, or the consumer has ended the iteration itself.
C15_AdvanceNotLost ==
  LET P == trace.passes
      proxiedCursor == iteration.proxiedCursor
      pending == requests[<<"creq", 0>>].state = "pending"
  IN /\ (iteration.pc = "yielded" /\ proxiedCursor \in DOMAIN advanceResults) =>
          LET p == advanceResults[proxiedCursor]
          IN /\ p \in DOMAIN heap
             /\ pending => heap[p].state = "pending" /\ Listening(p)
             /\ ~pending => heap[p].state # "pending"
             /\ (~pending /\ heap[p].state = "fulfilled") =>
                  /\ cursor.pos = Min(trace.yielded[Len(P)] + SeqSum(P[Len(P)].explicit),
                                      cursor.records + 1)
                  /\ heap[p].value = IF cursor.pos <= cursor.records
                                     THEN wrap(State, Raw("cursor", 0)).r
                                     ELSE Null
     /\ (iteration.pc = "advancing" /\ awaited(State).state = "pending") =>
          /\ pending
          /\ Listening(iteration.awaiting)
     /\ \A i \in DOMAIN P :
          P[i].explicit # <<>> =>
            /\ ~P[i].default
            /\ i < Len(trace.yielded) =>
                 trace.yielded[i + 1] = trace.yielded[i] + SeqSum(P[i].explicit)
            /\ (i = Len(trace.yielded) /\ iteration.pc = "done"
                  /\ trace.ended = "") =>
                 trace.yielded[i] + SeqSum(P[i].explicit) > cursor.records
            /\ (i = Len(trace.yielded) /\ iteration.pc = "failed"
                  /\ trace.ended = "") =>
                 requests[<<"creq", 0>>].state = "error"

\* A caller has wrapped IDBCursor.prototype.continue; the consumer of an
\* iteration of three records has called continue() on the first position:
\* the advance is pending in the host, the call returned undefined, which is
\* what advanceResults holds, and no promise listens on the request, so the
\* success of the advance will reach nobody.
C15_Witness ==
  /\ PlainContinue
  /\ iteration.pc = "yielded"
  /\ cursor.records = 3
  /\ trace.yielded = <<1>>
  /\ trace.passes[1].explicit = <<1>>
  /\ trace.issued = <<1>>
  /\ requests[<<"creq", 0>>].state = "pending"
  /\ iteration.proxiedCursor \in DOMAIN advanceResults
  /\ advanceResults[iteration.proxiedCursor] = Undefined
  /\ listeners[<<"creq", 0>>] = <<>>

----------------------------------------------------------------------------
\* Listeners of settled promises

\* The events promise p has a listener registered for.
ListenedEvents(p) ==
  {listeners[Id(p)][n].ev :
     n \in {m \in DOMAIN listeners[Id(p)] : listeners[Id(p)][m].p = p}}

\* A caller calls this.continue() on a wrapped cursor that is on a record.
Continue(this) ==
  /\ InstanceOf(this, "IDBCursor")
  /\ gotValue(State)
  /\ Cardinality(PromisesOf(Raw("creq", 0))) < MaxPromises
  /\ Apply(callMethod(State, this, "continue", 1).st)

\* A caller calls continue() on the raw cursor, which is on a record.
RawContinue ==
  /\ gotValue(State)
  /\ Apply(hostCall(State, Raw("cursor", 0), "continue", 1).st)

\* The database is open and wrapped, and its store has MaxRecords records.
InitListen == Start([Opened EXCEPT !.cur.records = MaxRecords])

\* A caller opens a transaction and a cursor on its store, wraps the
\* cursor's request again, and advances the cursor through its wrapper and
\* on the raw cursor. The host takes a request from an active transaction
\* only, and ends a transaction when no request of it is pending.
NextListen ==
  \/ \E this \in Proxies : Call(this, 1, "readonly")
  \/ \E receiver \in Proxies : Get(receiver, "store")
  \/ \E this \in Proxies :
       transactions[<<"tx", 1>>].state = "active" /\ OpenCursor(this)
  \/ \E value \in {q \in Requests : q.r = "creq"} : Wrap(value)
  \/ \E this \in Proxies :
       transactions[<<"tx", 1>>].state = "active" /\ Continue(this)
  \/ transactions[<<"tx", 1>>].state = "active" /\ RawContinue
  \/ CursorSuccess
  \/ \E e \in Errors : CursorError(e)
  \/ \E t \in TransactionIds :
       requests[<<"creq", 0>>].state # "pending" /\ Complete(t)
  \/ \E t \in TransactionIds :
       requests[<<"creq", 0>>].state # "pending" /\ ErrorEvent(t)
  \/ \E t \in TransactionIds, e \in Errors \cup {Null} :
       requests[<<"creq", 0>>].state # "pending" /\ Abort(t, e)

SpecListen == InitListen /\ [][NextListen]_vars

\* C16: a pending promise of a request listens for success and error and a
\* pending completion promise for complete, error and abort, and its target
\* has fired nothing since the promise was made; a settled promise has no
\* listener left on its target, and its outcome is the one of the first
\* event the target fired after the promise was made, whatever the target
\* fired later: fulfilled on success (with what wrap of that result returns)
\* or complete, rejected on error (with that error) or abort.
C16_ListenersRemoved ==
  \A p \in RequestPromises \cup DonePromises :
    LET c == heap[p]
        fired == signals[Id(p)]
    IN IF c.state = "pending"
       THEN /\ ListenedEvents(p) = IF p.k = "promise" THEN {"success", "error"}
                                   ELSE {"complete", "error", "abort"}
            /\ Len(fired) = c.born
       ELSE /\ ListenedEvents(p) = {}
            /\ Len(fired) > c.born
            /\ c.state = "fulfilled" <=> fired[c.born + 1].ev \in {"success", "complete"}
            /\ c.state = "rejected" <=> fired[c.born + 1].ev \in {"error", "abort"}
            /\ (p.k = "promise" /\ c.state = "fulfilled") =>
                 c.value = wrap(State, fired[c.born + 1].val).r
            /\ (p.k = "promise" /\ c.state = "rejected") =>
                 c.value = fired[c.born + 1].val

\* A promise of the cursor's request was fulfilled with the wrapped cursor;
\* the request has since signalled success again, the last time with null,
\* and the promise has no listener on it and holds the cursor still. The
\* completion promise of the transaction was rejected with the generic
\* AbortError by an error event; the transaction has since aborted with its
\* error set, and the promise has no listener on it and holds the AbortError
\* still.
C16_Witness ==
  /\ \E p \in PromisesOf(Raw("creq", 0)) :
       /\ heap[p].state = "fulfilled"
       /\ heap[p].value.k = "proxy" /\ heap[heap[p].value].target = Raw("cursor", 0)
       /\ ListenedEvents(p) = {}
       /\ Len(signals[<<"creq", 0>>]) >= heap[p].born + 3
       /\ signals[<<"creq", 0>>][Len(signals[<<"creq", 0>>])].val = Null
       /\ requests[<<"creq", 0>>].result = Null
  /\ \E d \in DonePromises :
       /\ heap[d].state = "rejected" /\ heap[d].value = AbortError
       /\ ListenedEvents(d) = {}
       /\ Len(signals[Id(d)]) = heap[d].born + 2
       /\ signals[Id(d)][heap[d].born + 1].ev = "error"
       /\ signals[Id(d)][heap[d].born + 2].ev = "abort"
       /\ transactions[Id(d)].error \in Errors

----------------------------------------------------------------------------
\* Requests and the two caches

\* C17: no request is a key of transformCache; every promise made from a
\* request q is a key of reverseTransformCache with value q, and every call
\* wrap(q) so far returned such a promise; and a further call wrap(q) returns
\* a promise that did not exist before, enters it in reverseTransformCache
\* with value q, and leaves transformCache and the other entries of
\* reverseTransformCache as they are.
C17_RequestNotCached ==
  /\ \A q \in Requests : q \notin DOMAIN transformCache
  /\ \A p \in RequestPromises :
       /\ p \in DOMAIN reverseTransformCache
       /\ reverseTransformCache[p] = Raw(p.r, p.i)
       /\ p \notin DOMAIN transformCache
  /\ \A e \in callLog :
       InstanceOf(e.arg, "IDBRequest") =>
         e.res \in RequestPromises /\ reverseTransformCache[e.res] = e.arg
  /\ \A q \in Requests :
       LET w == wrap(State, q)
       IN /\ w.r.k = "promise"
          /\ w.r \notin DOMAIN heap
          /\ w.st.tc = transformCache
          /\ w.st.rtc = (w.r :> q) @@ reverseTransformCache

\* wrap has been called twice on the request that opens the database and has
\* returned two promises, both mapped to the request by unwrap.
C17_Witness ==
  \E e1, e2 \in callLog :
    /\ e1.arg = Raw("req", 0) /\ e2.arg = Raw("req", 0)
    /\ e1.res # e2.res
    /\ unwrap(State, e1.res) = Raw("req", 0)
    /\ unwrap(State, e2.res) = Raw("req", 0)
    /\ Raw("req", 0) \notin DOMAIN transformCache

----------------------------------------------------------------------------
\* The has trap and the get trap

\* Names of every kind: the iteration entry points, shorthands with and
\* without a method behind them, advancing methods, the specials of a
\* transaction, native properties and a name nothing has.
AllProps ==
  {"Symbol.asyncIterator", "iterate", "get", "countFromIndex", "putFromIndex",
   "continue", "done", "store", "objectStore", "transaction", "db", "request",
   "openCursor", "frobnicate"}

\* C18: for every wrapper and every name, `prop in wrapper` is true exactly
\* if the read of the name through the wrapper returns by one of the special
\* rules of the get trap, or the name is a property of the wrapper's target;
\* when the test is false, the read returns undefined; when the read returns
\* by the rule of the iteration entry point or of the shorthands, it returns
\* that function; and the test and the read leave the same methods cached.
C18_HasAgreesWithGet ==
  \A w \in Proxies : \A prop \in AllProps :
    Bind(idbProxyTrapsHas(State, heap[w].target, prop), LAMBDA has :
    Bind(Read(w, prop), LAMBDA read :
      /\ has.r <=> (read.via # "target" \/ inTarget(State, heap[w].target, prop).r)
      /\ ~has.r => read.r = Undefined
      /\ read.via = "iterate" => read.r = Fn("iterate", "iterate")
      /\ read.via = "method" => /\ read.r.k \in {"method", "func"}
                                /\ read.r = read.st.cm[prop]
      /\ has.st.cm = read.st.cm))

\* A caller has the wrappers of a database, of a transaction of one store, of
\* the store, of its index and of a cursor, and has written frobnicate on the
\* wrapped store. On the database, get is present and read as the shorthand;
\* on the transaction, store is present and read as the wrapped store; on the
\* store, iterate and transaction are present, the one read by the rule of
\* the iteration entry point and the other as the wrapped transaction, and
\* frobnicate is present and read as the value written; on the index,
\* objectStore is present and frobnicate is absent and read as undefined; on
\* the cursor, continue is present and read by the rule of the advancing
\* methods.
C18_Witness ==
  \E db, tx, store, index, c \in Proxies :
    /\ InstanceOf(db, "IDBDatabase") /\ InstanceOf(tx, "IDBTransaction")
    /\ InstanceOf(store, "IDBObjectStore") /\ InstanceOf(index, "IDBIndex")
    /\ InstanceOf(c, "IDBCursor")
    /\ idbProxyTrapsHas(State, heap[db].target, "get").r
    /\ Read(db, "get").r = Fn("method", "get")
    /\ idbProxyTrapsHas(State, heap[tx].target, "store").r
    /\ Read(tx, "store").r = store
    /\ idbProxyTrapsHas(State, heap[store].target, "iterate").r
    /\ Read(store, "iterate").via = "iterate"
    /\ idbProxyTrapsHas(State, heap[store].target, "transaction").r
    /\ Read(store, "transaction").r = tx
    /\ properties = (<<Raw("store", store.i), "frobnicate">> :> Prim("v"))
    /\ idbProxyTrapsHas(State, heap[store].target, "frobnicate").r
    /\ Read(store, "frobnicate").r = Prim("v")
    /\ idbProxyTrapsHas(State, heap[index].target, "objectStore").r
    /\ Read(index, "objectStore").r = store
    /\ ~idbProxyTrapsHas(State, heap[index].target, "frobnicate").r
    /\ Read(index, "frobnicate").r = Undefined
    /\ idbProxyTrapsHas(State, heap[c].target, "continue").r
    /\ Read(c, "continue").via = "advance"
    /\ Read(c, "continue").r.k = "wrapped"

----------------------------------------------------------------------------
\* A failed advance request during an iteration

\* C19 as stated: in every step, (1) when the host signals the error of the
\* cursor's request while the generator awaits the promise of an advance, the
\* consumer's own or the generator's continue(), the generator fails with
\* the request's error; (2) when it signals the error while the consumer is
\* still on the position, the promise kept for the generator is rejected
\* with the request's error, the generator awaits that promise when the
\* consumer asks for the next position, and fails with the request's error
\* in the step it is resumed in, unless the consumer ends the iteration
\* itself instead of asking; (3) a failed generator stays failed with the
\* same error; in each of these steps no position is yielded, no advance is
\* issued and the request is not made pending again; and (4) the host never
\* signals the error of an advance to an iteration that has ended by itself.
C19_AdvanceFailure ==
  [][LET q == <<"creq", 0>>
         proxiedCursor == iteration.proxiedCursor
         quiet == /\ trace'.yielded = trace.yielded
                  /\ trace'.issued = trace.issued
                  /\ requests'[q].state = "error"
     IN /\ (requests[q].state = "pending" /\ requests'[q].state = "error"
              /\ iteration.pc = "advancing") =>
             /\ iteration'.pc = "failed"
             /\ iteration'.error = requests'[q].error
             /\ quiet
        /\ (requests[q].state = "pending" /\ requests'[q].state = "error"
              /\ iteration.pc = "yielded") =>
             /\ iteration'.pc = "yielded"
             /\ proxiedCursor \in DOMAIN advanceResults'
             /\ advanceResults'[proxiedCursor] \in DOMAIN heap'
             /\ heap'[advanceResults'[proxiedCursor]].state = "rejected"
             /\ heap'[advanceResults'[proxiedCursor]].value = requests'[q].error
             /\ quiet
        /\ (requests[q].state = "error" /\ iteration.pc = "yielded"
              /\ proxiedCursor \in DOMAIN advanceResults) =>
             /\ IF trace'.ended = ""
                THEN /\ iteration'.pc \in {"yielded", "advancing"}
                     /\ iteration'.pc = "advancing" =>
                          /\ iteration'.awaiting = advanceResults[proxiedCursor]
                          /\ iteration'.awaiting \in DOMAIN heap'
                          /\ heap'[iteration'.awaiting].state = "rejected"
                ELSE iteration'.pc = IF trace'.ended = "return" THEN "done"
                                    ELSE "failed"
             /\ quiet
        /\ (requests[q].state = "error" /\ iteration.pc = "advancing") =>
             /\ iteration'.pc = "failed"
             /\ iteration'.error = requests[q].error
             /\ quiet
        /\ iteration.pc = "failed" =>
             /\ iteration'.pc = "failed"
             /\ iteration'.error = iteration.error
             /\ trace'.yielded = trace.yielded
             /\ trace'.issued = trace.issued
             /\ trace.ended = "" => requests' = requests
        /\ (requests[q].state = "pending" /\ requests'[q].state = "error"
              /\ iteration.pc = "done") =>
             trace.ended # ""]_vars

\* A caller has wrapped IDBCursor.prototype.continue; the generator of an
\* iteration called cursor.continue() after the first position and ended,
\* as the function of lines 138-140 returned undefined; the host has then
\* signalled the error of that advance, which no promise listened to: the
\* iteration has ended without an error.
C19_Witness ==
  /\ PlainContinue
  /\ iteration.pc = "done"
  /\ trace.ended = "" /\ ~trace.threw
  /\ trace.yielded = <<1>>
  /\ trace.issued = <<1>>
  /\ trace.passes[1].explicit = <<>> /\ trace.passes[1].default
  /\ requests[<<"creq", 0>>].state = "error"
  /\ requests[<<"creq", 0>>].error \in Errors
  /\ iteration.error \notin Errors

----------------------------------------------------------------------------
\* The transaction and the operation of a shorthand call

\* The promises the read shorthands have returned.
Reads == {ret \in DOMAIN shorthands : shorthands[ret].done = False}

\* C20: there are as many transactions and as many operation requests as
\* shorthand calls; the transaction of a call spans the one named store and
\* is read-write exactly if the operation of its request is put, add, delete
\* or clear, and read-only otherwise; the request is the only one of the
\* transaction, with one promise, made on the store or on its index; the call
\* reads done exactly if it is a write; and the promise of a read is in
\* every state settled like the promise of its operation, pending, fulfilled
\* with the same value or rejected with the same error, whatever the state
\* of the transaction.
C20_ShorthandCall ==
  /\ Cardinality(DOMAIN shorthands) =
       Cardinality({t \in TransactionIds : transactions[t].state # "none"})
  /\ Cardinality(DOMAIN shorthands) =
       Cardinality({i \in 1..MaxCalls : requests[<<"req", i>>].state # "none"})
  /\ \A ret \in DOMAIN shorthands :
       LET call == shorthands[ret]
           tx == transactions[Id(ret)]
           request == requests[<<"req", ret.i>>]
       IN /\ tx.state # "none" /\ tx.names = 1
          /\ tx.mode = IF request.op \in writeMethods THEN "readwrite"
                       ELSE "readonly"
          /\ request.state # "none"
          /\ request.op \in readMethods \cup writeMethods
          /\ request.source \in {"store", "index"}
          /\ PromisesOf(Raw("req", ret.i)) = {call.op}
          /\ call.done = False <=> request.op \in readMethods
          /\ call.done # False => call.done = transactionDoneMap[Raw("tx", ret.i)]
  /\ \A ret \in Reads :
       /\ heap[ret].state = heap[shorthands[ret].op].state
       /\ heap[ret].value = heap[shorthands[ret].op].value

\* A read shorthand on the index of a store has been fulfilled with the
\* result of its operation while its read-only transaction is still active.
C20_Witness ==
  \E ret \in Reads :
    /\ heap[ret].state = "fulfilled"
    /\ heap[ret].value = Prim("key")
    /\ requests[<<"req", ret.i>>].source = "index"
    /\ transactions[Id(ret)].mode = "readonly"
    /\ transactions[Id(ret)].state = "active"

====
